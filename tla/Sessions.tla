------------------------------ MODULE Sessions ------------------------------
(***************************************************************************)
(* authorization.py, with the account of simple_password_auth.py: the one   *)
(* user and its key in memory, the public keys that tokens are checked      *)
(* with, and their rows in the database, whose one connection and thread     *)
(* serve all tasks: a rollback takes back what another has not committed.    *)
(* A client whose address is trusted needs no token, as local_bypass says;    *)
(* its name may have to be looked up, by a thread that may be too late.        *)
(* How a token is written is left out.                                         *)
(***************************************************************************)
EXTENDS Host

VARIABLES
  sessionUp,     \* Moonraker serves
  configured,    \* the password of moonraker.conf
  account,       \* users[USERNAME]: its password and jwk_id
  apiKey,        \* api_key, and that of users[API_USER]
  lastKey,       \* keys are new ones
  published,     \* public_jwks
  authSeen,      \* the rows as the connection sees them
  authDisk,      \* those committed
  authCommands,  \* what the thread of the database has still to do
  authDone,      \* what it has done, and the event loop has not yet seen
  authTask,      \* what a task saves, and what for
  limited,       \* max_login_attempts is one
  failedLogins,  \* of the clients' address
  socketIn,      \* a websocket logged in
  tokens,        \* the keys of the tokens that clients have
  oneshots,      \* oneshot_tokens, by who asked
  oneshotsUsed,
  trust,         \* trusted_clients: "none", the client's "address", or the "domain" of ours
  nameOf,        \* fqdn_cache: its name is "unknown", "ours" in trusted_domains, "other"
  trustedUser,   \* trusted_users has its address
  vouched,       \* history: its name was ours when it was looked up
  authTorn,      \* history: a save has failed in this life
  served,        \* history: keys of tokens that were accepted, and not logged out
  outlived       \* history: keys published when the user had another or none

authMemory == <<account, apiKey, lastKey, published>>
authStore == <<authSeen, authDisk, authCommands, authDone>>
trustVars == <<trust, nameOf, trustedUser, vouched>>
authClients == <<limited, failedLogins, socketIn, tokens, oneshots, oneshotsUsed, trustVars>>
sessionVars == <<sessionUp, configured, authMemory, authStore, authTask, authClients,
                 authTorn, served, outlived>>

Password == {1, 2}
NoSave == [for |-> None, key |-> 0]
NoAccount == [password |-> 0, key |-> 0]          \* the key 0 stands for None

SessionsInit ==
  /\ sessionUp = FALSE /\ configured = 1
  /\ account = NoAccount /\ apiKey = 0 /\ lastKey = 0 /\ published = {}
  /\ authDisk = [user |-> NoAccount, api |-> 0, others |-> TRUE]   \* of an older release
  /\ authSeen = authDisk
  /\ authCommands = <<>> /\ authDone = <<>> /\ authTask = [t \in Task |-> NoSave]
  /\ limited \in Among(BOOLEAN, "sessions") /\ failedLogins = 0
  /\ trust \in Among(IF limited THEN {"none"} ELSE {"address", "domain"}, "sessions")
  /\ nameOf = "unknown" /\ trustedUser = FALSE /\ vouched = FALSE
  /\ socketIn = FALSE /\ tokens = {} /\ oneshots = {} /\ oneshotsUsed = {}
  /\ authTorn = FALSE /\ served = {} /\ outlived = {}

AuthRows == [user : [password : Password \cup {0}, key : Nat], api : Nat, others : BOOLEAN]
SessionsTypeOK ==
  /\ {sessionUp, limited, socketIn, trustedUser, vouched, authTorn} \subseteq BOOLEAN
  /\ trust \in {"none", "address", "domain"} /\ nameOf \in {"unknown", "ours", "other"}
  /\ configured \in Password /\ lastKey \in Nat /\ failedLogins \in Nat
  /\ {authSeen, authDisk} \subseteq AuthRows
  /\ published \cup tokens \cup served \cup outlived \subseteq 1..lastKey
  /\ oneshots \cup oneshotsUsed \subseteq Request
  /\ \A t \in Task : authTask[t] = NoSave <=> pc[t] = "idle"
-----------------------------------------------------------------------------
(* _sync_user: the row as it is now; the task waits for the thread, twice. *)
SavesUser(t, what, put, for, key) ==
  /\ Goes(t, "saving")
  /\ authTask' = [authTask EXCEPT ![t] = [for |-> for, key |-> key]]
  /\ authCommands' = Append(authCommands, [by |-> t, do |-> "put", what |-> what, put |-> put])

AuthCommand(t, do) == [by |-> t, do |-> do, what |-> None, put |-> 0]

(* SqliteProvider.run: one command after the other; put and commit may fail. *)
AuthThreadWorks ==
  /\ authCommands # <<>>
  /\ authCommands' = Tail(authCommands)
  /\ LET c == Head(authCommands)
         Answers(ok) == authDone' = Append(authDone, [by |-> c.by, ok |-> ok])
     IN  \/ /\ Answers(TRUE) /\ UNCHANGED <<left, authTorn>>
            /\ authSeen' = CASE c.do = "put" /\ c.what # "all" ->
                                  [authSeen EXCEPT ![c.what] = c.put]
                             [] c.do = "put" /\ c.what = "all" -> c.put
                             [] c.do = "rollback" -> authDisk
                             [] OTHER -> authSeen
            /\ authDisk' = IF c.do = "commit" THEN authSeen ELSE authDisk
         \/ /\ c.by \in Request /\ c.do # "rollback" /\ Spends("failures")
            /\ Answers(FALSE) /\ authTorn' = TRUE
            /\ UNCHANGED <<authSeen, authDisk>>
  /\ PrinterStays
  /\ UNCHANGED <<pc, sessionUp, configured, authMemory, authTask, authClients, served, outlived>>
-----------------------------------------------------------------------------
(* component_init of both: the key of the database is published, a new      *)
(* password ends the session, other accounts go, and all is written anew.    *)

(* _password_changed *)
PasswordChanged(row) == row.user.password # configured

(* _initialize_users *)
ApiKeyLoaded ==
  /\ apiKey' = IF authDisk.api = 0 THEN lastKey + 1 ELSE authDisk.api
  /\ lastKey' = IF authDisk.api = 0 THEN apiKey' ELSE lastKey

(* _sync_user_table; nobody else writes before the server is up. *)
AllSaved ==
  SavesUser("init", "all", [user |-> account', api |-> apiKey', others |-> FALSE], "start", 0)

SessionsStart ==
  /\ ~sessionUp /\ Idle("init")
  /\ ApiKeyLoaded
  /\ account' = [password |-> configured,
                 key |-> IF PasswordChanged(authDisk) THEN 0 ELSE authDisk.user.key]
  /\ published' = {account'.key} \ {0}
  /\ AllSaved
  /\ served' = IF authTorn \/ PasswordChanged(authDisk) THEN {} ELSE served
  /\ authTorn' = FALSE
  /\ PrinterStays
  /\ UNCHANGED <<left, sessionUp, configured, authSeen, authDisk, authDone, authClients,
                 outlived>>

(* The end of Moonraker; what is not committed is lost. *)
SessionsCrash ==
  /\ Spends("failures")
  /\ sessionUp' = FALSE /\ pc' = [t \in Task |-> "idle"] /\ authTask' = [t \in Task |-> NoSave]
  /\ account' = NoAccount /\ apiKey' = 0 /\ published' = {}
  /\ authSeen' = authDisk /\ authCommands' = <<>> /\ authDone' = <<>>
  /\ failedLogins' = 0 /\ socketIn' = FALSE /\ oneshots' = {}
  /\ nameOf' = "unknown" /\ trustedUser' = FALSE /\ vouched' = FALSE
  /\ PrinterStays
  /\ UNCHANGED <<trust, configured, lastKey, authDisk, limited, tokens, oneshotsUsed, authTorn,
                 served, outlived>>

PasswordEdited ==
  /\ Spends("changes") /\ configured' = 3 - configured
  /\ PrinterStays
  /\ UNCHANGED <<pc, sessionUp, authMemory, authStore, authTask, authClients, authTorn, served,
                 outlived>>
-----------------------------------------------------------------------------
(* _handle_login, _login_jwt_user.  A websocket remembers its user. *)

HasToken(key) ==
  /\ tokens' = tokens \cup {key} /\ failedLogins' = 0
  /\ socketIn' \in {socketIn, TRUE}

(* check_logins_maxed *)
LoginsMaxed == limited /\ failedLogins > 0

(* The password is right: the user's key, or a new one that is saved first. *)
KeyTaken(t) ==
  IF account.key # 0
  THEN HasToken(account.key) /\ UNCHANGED <<pc, account, lastKey, authCommands, authTask>>
  ELSE /\ lastKey' = lastKey + 1
       /\ account' = [account EXCEPT !.key = lastKey']
       /\ SavesUser(t, "user", account', "login", lastKey')
       /\ UNCHANGED <<failedLogins, socketIn, tokens>>

LoginBegins(t) ==
  /\ sessionUp /\ Idle(t) /\ Spends("asks")
  /\ \/ ~LoginsMaxed /\ KeyTaken(t)
     \/ /\ failedLogins' = IF LoginsMaxed THEN failedLogins ELSE failedLogins + 1
        /\ UNCHANGED <<pc, account, lastKey, authCommands, authTask, socketIn, tokens>>
  /\ PrinterStays
  /\ UNCHANGED <<trustVars, sessionUp, configured, apiKey, published, authSeen, authDisk,
                 authDone, limited, oneshots, oneshotsUsed, authTorn, served, outlived>>

(* The key is published when it has been saved, whoever logged out meanwhile. *)
KeyPublished(key) ==
  /\ published' = published \cup {key}
  /\ outlived' = IF account.key = key THEN outlived ELSE outlived \cup {key}

(* _handle_logout, of a websocket or by a token *)
LogoutBegins(t) ==
  /\ sessionUp /\ Idle(t) /\ Spends("asks")
  /\ socketIn \/ tokens \cap published # {}
  /\ account' = [account EXCEPT !.key = 0]
  /\ published' = published \ {account.key} /\ served' = served \ {account.key}
  /\ SavesUser(t, "user", account', "logout", 0)
  /\ PrinterStays
  /\ UNCHANGED <<sessionUp, configured, apiKey, lastKey, authSeen, authDisk, authDone,
                 authClients, authTorn, outlived>>

(* _handle_apikey_request *)
ApiKeyRenewed(t) ==
  /\ sessionUp /\ Idle(t) /\ Spends("asks")
  /\ lastKey' = lastKey + 1 /\ apiKey' = lastKey'
  /\ SavesUser(t, "api", apiKey', "api", 0)
  /\ PrinterStays
  /\ UNCHANGED <<sessionUp, configured, account, published, authSeen, authDisk, authDone,
                 authClients, authTorn, served, outlived>>

(* SqlTableWrapper.__aexit__: commit or roll back, and wait for that.  The task *)
(* goes on, or with an exception, in the order the thread has answered.           *)
SaveEnds(t, ok) ==
  /\ Goes(t, "idle") /\ authTask' = [authTask EXCEPT ![t] = NoSave]
  /\ UNCHANGED authCommands
  /\ CASE authTask[t].for = "login" /\ ok ->
             KeyPublished(authTask[t].key) /\ HasToken(authTask[t].key)
       [] authTask[t].for = "login" /\ ~ok ->
             /\ failedLogins' = failedLogins + 1
             /\ UNCHANGED <<published, outlived, socketIn, tokens>>
       [] OTHER -> UNCHANGED <<published, outlived, failedLogins, socketIn, tokens>>

SaveAnswered(t) ==
  /\ authDone # <<>> /\ Head(authDone).by = t
  /\ authDone' = Tail(authDone)
  /\ LET ok == Head(authDone).ok IN
       IF pc[t] = "saving"
       THEN /\ Goes(t, IF ok THEN "committing" ELSE "failing")
            /\ authCommands' =
                 Append(authCommands, AuthCommand(t, IF ok THEN "commit" ELSE "rollback"))
            /\ UNCHANGED <<authTask, published, outlived, failedLogins, socketIn, tokens>>
       ELSE SaveEnds(t, ok /\ pc[t] = "committing")
  /\ sessionUp' = (sessionUp \/ (t = "init" /\ pc[t] = "committing"))
  /\ PrinterStays
  /\ UNCHANGED <<trustVars, left, configured, account, apiKey, lastKey, authSeen, authDisk,
                 limited, oneshots, oneshotsUsed, authTorn, served>>
-----------------------------------------------------------------------------
(* decode_jwt *)
TokenIsGood(key) == key \in tokens /\ key \in published

(* _check_json_web_token, before anything else *)
TokenAccepted ==
  /\ sessionUp
  /\ \E key \in tokens : TokenIsGood(key) /\ served' = served \cup {key}
  /\ PrinterStays
  /\ UNCHANGED <<pc, left, sessionUp, configured, authMemory, authStore, authTask, authClients,
                 authTorn, outlived>>

(* _handle_refresh_jwt: the new token is of the user's key. *)
TokenRefreshed ==
  /\ sessionUp /\ tokens \cap published # {} /\ account.key # 0
  /\ tokens' = tokens \cup {account.key}
  /\ PrinterStays
  /\ UNCHANGED <<trustVars, pc, left, sessionUp, configured, authMemory, authStore, authTask,
                 limited, failedLogins, socketIn, oneshots, oneshotsUsed, authTorn, served,
                 outlived>>

(* get_oneshot_token; _check_oneshot_token pops it, and so does its timer. *)
OneshotKept == UNCHANGED <<trustVars, pc, sessionUp, configured, authMemory, authStore, authTask,
                           limited, failedLogins, socketIn, tokens, authTorn, served, outlived>>

OneshotGiven(t) ==
  /\ sessionUp /\ Spends("asks")
  /\ t \notin oneshots \cup oneshotsUsed
  /\ oneshots' = oneshots \cup {t}
  /\ PrinterStays /\ OneshotKept /\ UNCHANGED oneshotsUsed

OneshotPopped(t) ==
  /\ t \in oneshots /\ oneshots' = oneshots \ {t}
  /\ oneshotsUsed' \in {oneshotsUsed, oneshotsUsed \cup {t}}
  /\ PrinterStays /\ OneshotKept /\ UNCHANGED left
-----------------------------------------------------------------------------
(* A client without a token, a key or a one-shot token *)

AddressKept == UNCHANGED <<sessionUp, configured, authMemory, authStore, limited, failedLogins,
                           socketIn, tokens, oneshots, oneshotsUsed, trust, authTorn, served,
                           outlived>>

(* _check_authorized_ip, as far as nobody need be asked *)
AddressAuthorized == trust = "address" \/ nameOf = "ours"

(* A thread asks for the name of the address. *)
LooksUp(t, for) ==
  /\ Goes(t, "naming")
  /\ authTask' = [authTask EXCEPT ![t] = [for |-> for, key |-> 0]]
  /\ UNCHANGED trustedUser

(* _check_trusted_connection: the address is trusted, for an hour from the last *)
(* request.                                                                       *)
AddressTrusted ==
  /\ AddressAuthorized /\ trustedUser' = TRUE
  /\ UNCHANGED <<pc, authTask>>

(* authenticate_request, not by way of Cloudflare; what is refused changes nothing. *)
RequestByAddress(t) ==
  /\ sessionUp /\ Idle(t) /\ Spends("asks")
  /\ trust # "none" /\ ~trustedUser
  /\ AddressTrusted \/ (trust = "domain" /\ nameOf = "unknown" /\ LooksUp(t, "request"))
  /\ PrinterStays /\ AddressKept /\ UNCHANGED <<nameOf, vouched>>

(* check_cors, and _handle_info_request: the address is not kept as trusted. *)
OriginChecked(t) ==
  /\ sessionUp /\ Idle(t) /\ Spends("asks")
  /\ trust = "domain" /\ nameOf = "unknown"
  /\ LooksUp(t, "origin")
  /\ PrinterStays /\ AddressKept /\ UNCHANGED <<nameOf, vouched>>

(* The name is kept, and whoever asked goes on; or five seconds are over, the *)
(* address is not trusted, and what the thread says later is not heard.         *)
NameAnswered(t) ==
  /\ pc[t] = "naming" /\ Goes(t, "idle")
  /\ authTask' = [authTask EXCEPT ![t] = NoSave]
  /\ \/ /\ nameOf' \in {"ours", "other"}
        /\ vouched' = (vouched \/ nameOf' = "ours")
        /\ trustedUser' = (trustedUser \/ (nameOf' = "ours" /\ authTask[t].for = "request"))
     \/ UNCHANGED <<nameOf, trustedUser, vouched>>
  /\ PrinterStays /\ AddressKept /\ UNCHANGED left

(* _prune_conn_handler: an hour without a request, or a day with the name *)
AddressPruned ==
  /\ trustedUser \/ nameOf # "unknown"
  /\ trustedUser' \in {trustedUser, FALSE} /\ nameOf' \in {nameOf, "unknown"}
  /\ vouched' = (vouched /\ (trustedUser' \/ nameOf' # "unknown"))
  /\ PrinterStays /\ AddressKept /\ UNCHANGED <<pc, left, authTask>>
-----------------------------------------------------------------------------
SessionsNext ==
  \/ AuthThreadWorks \/ SessionsStart \/ SessionsCrash \/ PasswordEdited
  \/ TokenAccepted \/ TokenRefreshed \/ AddressPruned
  \/ \E t \in Request : LoginBegins(t) \/ LogoutBegins(t) \/ ApiKeyRenewed(t)
                      \/ OneshotGiven(t) \/ OneshotPopped(t)
                      \/ RequestByAddress(t) \/ OriginChecked(t) \/ NameAnswered(t)
  \/ \E t \in Request \cup {"init"} : SaveAnswered(t)

SessionsWorks(t) ==
  \/ t = "worker" /\ AuthThreadWorks
  \/ t \in Request \cup {"init"} /\ SaveAnswered(t)
  \/ t \in Request /\ NameAnswered(t)

(* What is published is the user's key, but for one whose login was overtaken   *)
(* by a logout; a token that was accepted is accepted until then, over restarts; *)
(* and, unless a save failed, the database has the user and the API key when      *)
(* nobody saves.  A one-shot token serves once.  An address that is trusted is    *)
(* listed, or its name was ours when it was last unknown and was looked up.        *)
SessionsAreKept ==
  /\ published \ outlived \subseteq {account.key}
  /\ sessionUp => served \ outlived \subseteq published
  /\ sessionUp /\ ~authTorn /\ (\A t \in Task : Idle(t)) =>
       authDisk = [user |-> account, api |-> apiKey, others |-> FALSE]
  /\ oneshots \cap oneshotsUsed = {}
  /\ trustedUser => trust = "address" \/ (trust = "domain" /\ vouched)
=============================================================================
