----------------------------- MODULE HttpClient -----------------------------
(***************************************************************************)
(* http_client.py: requests that keep the last answer of an address and ask  *)
(* whether it is still so, requests to GitHub that heed its limit, and a     *)
(* download whose chunks are written by a task of their own while more come. *)
(***************************************************************************)
EXTENDS Host

VARIABLES
  httpPlan,    \* what this behaviour is about
  srvVersion,  \* the version of what the server has
  srvTells,    \* with what it lets a client ask again, "none", "etag", "modified"
  respCache,   \* response_cache of the one address, None without an entry
  httpAsk,     \* a request: its query, whether it is cached, attempts left, ...
  httpReply,   \* a reply on its way
  httpResult,  \* what a request returned
  ghKnown,     \* gh_limit_remaining, and whether it has not been reset yet
  ghReal,      \* what GitHub still answers
  dl           \* a StreamingDownload, its fetch and its file

httpVars == <<httpPlan, srvVersion, srvTells, respCache, httpAsk, httpReply, httpResult, ghKnown,
              ghReal, dl>>

MaxVersion == 1    \* of what the server has
MaxAttempts == 2   \* of a request and of a download
MaxChunks == 2     \* of an answer
(* wrong: the body of a reply that reports an error *)
Empty == [query |-> "none", version |-> 0, wrong |-> FALSE]
HttpContent == [query : {"a", "b"}, version : 0..MaxVersion, wrong : BOOLEAN] \cup {Empty}
(* An entry: its content, and the version its etag or its date stands for *)
HttpEntry == [content : HttpContent, query : {"a", "b"}, version : 0..MaxVersion]
NoAsk == [query |-> "a", caches |-> FALSE, tries |-> 0, cached |-> None, since |-> 0]
Returned(code, content) == [code |-> code, content |-> content]
(* chunks: what is still to come; buffer: chunk_buffer; file: what has been    *)
(* written, opened with file_hdl; busy: busy_evt is clear; fetched: how fetch    *)
(* ended; done: download_file returned.                                          *)
NoDownload == [tries |-> 0, chunks |-> <<>>, buffer |-> <<>>, file |-> <<>>, opened |-> FALSE,
               busy |-> FALSE, fetched |-> None, done |-> FALSE, stuck |-> FALSE]

HttpClientInit ==
  /\ httpPlan \in Among({"cache", "github", "download"}, "http")
  /\ srvVersion = 0
  /\ srvTells \in (IF httpPlan = "cache" THEN Among({"none", "etag", "modified"}, "http")
                   ELSE {"none"})
  /\ respCache \in (IF httpPlan = "cache" /\ srvTells # "none"
                    THEN Among({None, [content |-> Empty, query |-> "a", version |-> 0]}, "http")
                    ELSE {None})
  /\ httpAsk = [t \in Request |-> NoAsk] /\ httpReply = [t \in Request |-> None]
  /\ httpResult = [t \in Request |-> None]
  /\ ghKnown = [remaining |-> None, holds |-> FALSE] /\ ghReal = 1
  /\ dl = NoDownload

HttpClientTypeOK ==
  /\ httpPlan \in {"cache", "github", "download"} /\ srvVersion \in 0..MaxVersion
  /\ respCache = None \/ respCache \in HttpEntry
  /\ \A t \in Request : /\ httpAsk[t].tries \in 0..MaxAttempts
                        /\ httpAsk[t].cached = None \/ httpAsk[t].cached \in HttpEntry
  /\ ghKnown.remaining \in {None, 0, 1} /\ ghReal \in 0..1
  /\ dl.tries \in 0..MaxAttempts /\ {dl.opened, dl.busy, dl.done, dl.stuck} \subseteq BOOLEAN
  /\ \A s \in {dl.chunks, dl.buffer, dl.file} : Len(s) <= MaxChunks

HttpRests == UNCHANGED <<httpPlan, srvTells>> /\ PrinterStays
-----------------------------------------------------------------------------
(* request: what is kept of the address, its query left out, is read before   *)
(* the request is sent; attempts, and a pause between them.                    *)

(* Attempts matter only where something may still fail. *)
HttpAsked(t) ==
  /\ httpPlan = "cache" /\ Idle(t) /\ httpResult[t] = None /\ Spends("asks")
  /\ \E query \in {"a", "b"}, caches \in BOOLEAN,
        tries \in IF May("failures") THEN 1..MaxAttempts ELSE {1} :
       httpAsk' = [httpAsk EXCEPT ![t] =
                     [query |-> query, caches |-> caches, tries |-> tries, since |-> srvVersion,
                      cached |-> IF caches THEN respCache ELSE None]]
  /\ Goes(t, "sent")
  /\ HttpRests
  /\ UNCHANGED <<srvVersion, respCache, httpReply, httpResult, ghKnown, ghReal, dl>>

(* The server: by a date it does not see that another query was answered then. *)
StillTheSame(ask) ==
  /\ ask.cached # None
  /\ ask.cached.version = srvVersion
  /\ srvTells = "modified" \/ ask.cached.query = ask.query
(* Of an error that it sent with an etag or a date it may say the same. *)
ServerSays(ask) ==
  IF ~StillTheSame(ask) THEN {200} ELSE IF ask.cached.content.wrong THEN {200, 304} ELSE {304}

(* It fails with a reply, 404, or without one. *)
ServerAnswers(t) ==
  /\ httpPlan = "cache" /\ pc[t] = "sent"
  /\ \/ /\ \E code \in ServerSays(httpAsk[t]) :
             httpReply' = [httpReply EXCEPT ![t] = Returned(code, srvVersion)]
        /\ UNCHANGED left
     \/ /\ Spends("failures")
        /\ \E reply \in {Returned(404, srvVersion), Returned(500, 0)} :
             httpReply' = [httpReply EXCEPT ![t] = reply]
  /\ Goes(t, "answered")
  /\ HttpRests
  /\ UNCHANGED <<srvVersion, respCache, httpAsk, httpResult, ghKnown, ghReal, dl>>

(* Mutant: what is kept when the answer has come. *)
KeptNow(ask) == IF respCache = None THEN Empty ELSE respCache.content
(* cached.content, read before *)
KeptThen(ask) == IF ask.cached = None THEN Empty ELSE ask.cached.content

(* is_cachable looks at the etag and the date alone: an error that comes with   *)
(* one is kept.  An answer without, no answer and a request that is not cached  *)
(* leave the address without an entry.                                           *)
KeptAfter(ask, code, content, version) ==
  IF ask.caches /\ code # 500 /\ srvTells # "none"
  THEN [content |-> content, version |-> version,
        query |-> IF code = 304 THEN ask.cached.query ELSE ask.query]
  ELSE None

AnswerCame(t) ==
  /\ pc[t] = "answered"
  /\ LET ask == httpAsk[t]
         code == httpReply[t].code
         version == httpReply[t].content
         content == CASE code = 304 -> KeptThen(ask)
                      [] code = 500 -> Empty
                      [] OTHER -> [query |-> ask.query, version |-> version, wrong |-> code = 404] IN
       IF code \in {404, 500} /\ ask.tries > 1
       THEN /\ httpAsk' = [httpAsk EXCEPT ![t].tries = @ - 1]
            /\ Goes(t, "sent") /\ UNCHANGED <<respCache, httpResult>>
       ELSE /\ httpResult' = [httpResult EXCEPT ![t] = Returned(code, content)]
            /\ respCache' = KeptAfter(ask, code, content, version)
            /\ httpAsk' = [httpAsk EXCEPT ![t] = [@ EXCEPT !.tries = 0, !.cached = None,
                                                           !.caches = FALSE]]
            /\ Goes(t, "idle")
  /\ httpReply' = [httpReply EXCEPT ![t] = None]
  /\ HttpRests
  /\ UNCHANGED <<left, srvVersion, ghKnown, ghReal, dl>>

ServerChanges ==
  /\ srvVersion < MaxVersion /\ Spends("changes")
  /\ srvVersion' = srvVersion + 1
  /\ HttpRests
  /\ UNCHANGED <<pc, respCache, httpAsk, httpReply, httpResult, ghKnown, ghReal, dl>>
-----------------------------------------------------------------------------
(* github_api_request *)

GithubAsked(t) ==
  /\ httpPlan = "github" /\ Idle(t) /\ httpReply[t] = None /\ Spends("asks")
  /\ ~(ghKnown.remaining = 0 /\ ghKnown.holds)
  /\ Goes(t, "sent")
  /\ HttpRests
  /\ UNCHANGED <<srvVersion, respCache, httpAsk, httpReply, httpResult, ghKnown, ghReal, dl>>

GithubAnswers(t) ==
  /\ httpPlan = "github" /\ pc[t] = "sent"
  /\ \/ /\ ghReal' = IF ghReal = 0 THEN 0 ELSE ghReal - 1
        /\ httpReply' = [httpReply EXCEPT ![t] = Returned(IF ghReal = 0 THEN 403 ELSE 200, ghReal')]
        /\ UNCHANGED left
     \/ Spends("failures") /\ httpReply' = [httpReply EXCEPT ![t] = Returned(500, 0)]
        /\ UNCHANGED ghReal
  /\ Goes(t, "limited")
  /\ HttpRests
  /\ UNCHANGED <<srvVersion, respCache, httpAsk, httpResult, ghKnown, dl>>

(* The headers of the limit; a request that failed has none. *)
LimitRead(t) ==
  /\ pc[t] = "limited"
  /\ ghKnown' = IF httpReply[t].code = 500 THEN ghKnown
                ELSE [remaining |-> httpReply[t].content, holds |-> TRUE]
  /\ httpReply' = [httpReply EXCEPT ![t] = None]
  /\ Goes(t, "idle")
  /\ HttpRests
  /\ UNCHANGED <<left, srvVersion, respCache, httpAsk, httpResult, ghReal, dl>>

(* The time of the reset passes. *)
LimitReset ==
  /\ httpPlan = "github" /\ Spends("changes")
  /\ ghReal' = 1 /\ ghKnown' = [ghKnown EXCEPT !.holds = FALSE]
  /\ HttpRests
  /\ UNCHANGED <<pc, srvVersion, respCache, httpAsk, httpReply, httpResult, dl>>
-----------------------------------------------------------------------------
(* download_file and StreamingDownload *)

Attempt(tries) ==
  [NoDownload EXCEPT !.tries = tries, !.file = dl.file,
                     !.chunks = [i \in 1..MaxChunks |-> [version |-> srvVersion, chunk |-> i]]]

DownloadAsked(t) ==
  /\ httpPlan = "download" /\ Idle(t) /\ dl.tries = 0 /\ ~dl.done /\ Spends("asks")
  /\ \E tries \in 1..MaxAttempts : dl' = Attempt(tries)
  /\ Goes(t, "fetching")
  /\ HttpRests
  /\ UNCHANGED <<srvVersion, respCache, httpAsk, httpReply, httpResult, ghKnown, ghReal>>

(* on_chunk_recd: the first one starts the task that writes. *)
ChunkCame(t) ==
  /\ pc[t] = "fetching" /\ dl.chunks # <<>>
  /\ dl' = [dl EXCEPT !.chunks = Tail(@), !.buffer = Append(@, Head(dl.chunks)), !.busy = TRUE]
  /\ IF dl.busy THEN UNCHANGED pc
     ELSE Goes("worker", IF dl.opened THEN "writing" ELSE "opening")
  /\ HttpRests
  /\ UNCHANGED <<left, srvVersion, respCache, httpAsk, httpReply, httpResult, ghKnown, ghReal>>

FetchEnds(t) ==
  /\ pc[t] = "fetching"
  /\ \/ dl.chunks = <<>> /\ dl' = [dl EXCEPT !.fetched = "whole"] /\ UNCHANGED left
     \/ Spends("failures") /\ dl' = [dl EXCEPT !.fetched = "failed", !.chunks = <<>>]
  /\ Goes(t, "closing")
  /\ HttpRests
  /\ UNCHANGED <<srvVersion, respCache, httpAsk, httpReply, httpResult, ghKnown, ghReal>>

(* Mutant: the file goes on where the failed attempt left it. *)
FileGoesOn == dl.file
(* It is opened with "wb". *)
Truncated == <<>>

(* A full disk ends the task, and nothing sets busy_evt again. *)
FileOpened ==
  /\ pc["worker"] = "opening"
  /\ \/ /\ dl' = [dl EXCEPT !.opened = TRUE, !.file = Truncated]
        /\ Goes("worker", "writing") /\ UNCHANGED left
     \/ Spends("failures") /\ dl' = [dl EXCEPT !.stuck = TRUE] /\ Goes("worker", "idle")
  /\ HttpRests
  /\ UNCHANGED <<srvVersion, respCache, httpAsk, httpReply, httpResult, ghKnown, ghReal>>

(* _process_buffer *)
ChunkWritten ==
  /\ pc["worker"] = "writing"
  /\ \/ /\ LET more == Len(dl.buffer) > 1 IN
             /\ dl' = [dl EXCEPT !.file = Append(@, Head(dl.buffer)), !.buffer = Tail(@),
                                 !.busy = more]
             /\ IF more THEN UNCHANGED pc ELSE Goes("worker", "idle")
        /\ UNCHANGED left
     \/ Spends("failures") /\ dl' = [dl EXCEPT !.stuck = TRUE] /\ Goes("worker", "idle")
  /\ HttpRests
  /\ UNCHANGED <<srvVersion, respCache, httpAsk, httpReply, httpResult, ghKnown, ghReal>>

(* Mutant: it is closed when the answer has ended. *)
AtTheEnd == TRUE
(* close: busy_evt is waited for. *)
AllWritten == ~dl.busy

DownloadClosed(t) ==
  /\ pc[t] = "closing" /\ AllWritten
  /\ CASE dl.fetched = "whole" ->
            dl' = [dl EXCEPT !.done = TRUE, !.tries = 0] /\ Goes(t, "idle")
       [] dl.fetched = "failed" /\ dl.tries > 1 ->
            dl' = Attempt(dl.tries - 1) /\ Goes(t, "fetching")
       [] OTHER -> dl' = [NoDownload EXCEPT !.file = dl.file] /\ Goes(t, "idle")
  /\ HttpRests
  /\ UNCHANGED <<left, srvVersion, respCache, httpAsk, httpReply, httpResult, ghKnown, ghReal>>

HttpClientNext ==
  \/ ServerChanges \/ LimitReset \/ FileOpened \/ ChunkWritten
  \/ \E t \in Request : \/ HttpAsked(t) \/ ServerAnswers(t) \/ AnswerCame(t)
                        \/ GithubAsked(t) \/ GithubAnswers(t) \/ LimitRead(t)
                        \/ DownloadAsked(t) \/ ChunkCame(t) \/ FetchEnds(t) \/ DownloadClosed(t)

HttpClientWorks(t) ==
  \/ t = "worker" /\ (FileOpened \/ ChunkWritten)
  \/ /\ t \in Request
     /\ \/ ServerAnswers(t) \/ AnswerCame(t) \/ GithubAnswers(t) \/ LimitRead(t)
        \/ ChunkCame(t) \/ FetchEnds(t) \/ DownloadClosed(t)

(* What a request returns is what the server had for it while it was under     *)
(* way, though it may come from what was kept, was kept by another and has been  *)
(* replaced or dropped meanwhile; an empty content is only that of an address    *)
(* that was registered as seen (register_cached_url) and has not changed.  But    *)
(* with a server that goes by dates the answer may be to another query, and the    *)
(* body of an error, which was kept with its etag or date, passes for an answer    *)
(* when the server says later that it is still so (http_client.py:129-158).         *)
AnswersAreCurrent ==
  \A t \in Request :
    LET r == httpResult[t] IN
    r # None /\ r.code # 500 =>
      IF r.content = Empty THEN httpAsk[t].since = 0
      ELSE /\ r.content.version \in httpAsk[t].since..srvVersion
           /\ r.content.query = httpAsk[t].query \/ srvTells = "modified"
           /\ r.content.wrong => r.code # 200

(* A download that returns has all chunks of one answer in its file, in order:   *)
(* nothing of an attempt that failed, and nothing still to be written.            *)
DownloadIsWhole ==
  dl.done => /\ Len(dl.file) = MaxChunks
             /\ \A i \in 1..MaxChunks : /\ dl.file[i].chunk = i
                                        /\ dl.file[i].version = dl.file[1].version
=============================================================================
