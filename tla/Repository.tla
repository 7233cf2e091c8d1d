----------------------------- MODULE Repository -----------------------------
(***************************************************************************)
(* git_deploy.py: what GitRepo finds out of a repository by one git command *)
(* after another, each of which may fail, and what an update, a recovery    *)
(* and a rollback make of it, while others may work in it over SSH.  Module *)
(* Updates has the locks and the database around this.                      *)
(* Commits are numbers, in the order of the remote branch; a commit made    *)
(* here is on top of one of them.                                           *)
(***************************************************************************)
EXTENDS Host

VARIABLES
  follows,     \* the channel, or a pinned_commit: what upstream_commit is
  master,      \* the commit of the local branch
  detachedAt,  \* HEAD where it is not the branch, None where it is
  refTold,     \* "HEAD detached at <ref>" names the remote
  edited,      \* files are modified
  damaged,     \* objects are damaged
  tracking,    \* the remote branch as it was fetched
  repoKnown,       \* what GitRepo has found out
  isValid,     \* _is_valid
  rollbackTo,  \* rollback_commit and rollback_branch
  repoOp,      \* what is asked of the deployer
  captured,    \* rb_state in _pull_repo
  touched,     \* others have worked in it since the last refresh began
  halfDone,    \* a request has failed after it moved HEAD, and no refresh followed
  repoMisjudged,   \* is_ancestor gave up
  lostWork     \* an update threw away what was there when it was found valid

treeVars == <<master, detachedAt, refTold, edited, damaged, tracking>>
ghostRepoVars == <<touched, halfDone, repoMisjudged, lostWork>>
gitVars == <<follows, treeVars, repoKnown, isValid, rollbackTo, repoOp, captured, ghostRepoVars>>

Tip == 2          \* of the remote branch
TaggedCommits == {1}   \* commits with the tag of a final release
Pinned == 1

Commit(c) == [at |-> c, own |-> FALSE]
HeadCommit == IF detachedAt = None THEN master ELSE detachedAt
Precedes(c, d) == IF d.own THEN c.at <= d.at /\ (c.own => c = d) ELSE ~c.own /\ c.at <= d.at

RepositoryInit ==
  /\ follows \in Among({"branch", "releases", "pinned"}, "repository")
  /\ master = Commit(0) /\ detachedAt = None /\ refTold = TRUE /\ edited = FALSE /\ damaged = FALSE
  /\ tracking \in Among({0, Tip}, "repository")
  /\ repoKnown = [repo |-> TRUE, branch |-> "master", remote |-> "origin", current |-> Commit(0),
              upstream |-> Commit(IF tracking = 0 THEN 0 ELSE IF follows = "branch" THEN Tip ELSE 1),
              dirty |-> FALSE, detached |-> FALSE, diverged |-> FALSE,
              corrupt |-> FALSE]
  /\ isValid = TRUE
  /\ rollbackTo = [commit |-> Commit(0), branch |-> "master"]
  /\ repoOp = "none" /\ captured = rollbackTo
  /\ touched = FALSE /\ halfDone = FALSE /\ repoMisjudged = FALSE /\ lostWork = FALSE

Commits == [at : 0..Tip, own : BOOLEAN]
RepositoryTypeOK ==
  /\ master \in Commits /\ detachedAt \in Commits \cup {None} /\ tracking \in 0..Tip
  /\ {refTold, edited, damaged, isValid} \subseteq BOOLEAN
  /\ {touched, halfDone, repoMisjudged, lostWork} \subseteq BOOLEAN
  /\ repoKnown.branch \in {"master", None} /\ repoKnown.remote \in {"origin", None}
  /\ {repoKnown.current, repoKnown.upstream} \subseteq Commits \cup {None}
  /\ rollbackTo.commit \in Commits \cup {None}
  /\ rollbackTo.branch \in {"master", "origin/master", None}
  /\ repoOp \in {"none", "refresh", "update", "recover", "clone", "rollback"}
  /\ (repoOp = "none") <=> Idle("worker")
-----------------------------------------------------------------------------
(* is_valid: is_damaged, has_recoverable_errors.  Mutant: a local commit is  *)
(* no reason not to update.                                                  *)
UnlessDirty(k) ==
  /\ None \notin {k.branch, k.remote, k.upstream}
  /\ k.repo /\ ~k.corrupt
  /\ ~(k.dirty \/ k.detached)
Valid(k) ==
  /\ None \notin {k.branch, k.remote, k.upstream}
  /\ k.repo /\ ~k.corrupt
  /\ ~(k.diverged \/ k.dirty \/ k.detached)

(* capture_state_for_rollback *)
CapturedState(k) ==
  [commit |-> k.current,
   branch |-> IF ~k.detached THEN k.branch
              ELSE IF None \in {k.branch, k.remote} THEN None ELSE "origin/master"]

GitStep(place) == Goes("worker", place) /\ UNCHANGED left
StepFails(place) == Goes("worker", place) /\ Spends("failures")
RepoAt(place) == pc["worker"] = place /\ PrinterStays /\ UNCHANGED follows
KeepsTree == UNCHANGED treeVars

(* The request ends, or is raised out of. *)
Over == repoOp' = "none"
SameOp == UNCHANGED repoOp

RepoAsked ==
  /\ Idle("worker") /\ Spends("asks") /\ PrinterStays
  /\ \E what \in {"refresh", "update", "recover", "clone", "rollback"} :
       /\ what = "update" => isValid /\ ~repoKnown.dirty /\ repoKnown.current # repoKnown.upstream
       /\ what = "rollback" =>
            /\ None \notin {rollbackTo.commit, rollbackTo.branch}
            /\ rollbackTo.branch = repoKnown.branch => rollbackTo.commit # repoKnown.current
       /\ repoOp' = what
       /\ Goes("worker", CASE what = "refresh" -> "status" [] what = "update" -> "pull_fetch"
                           [] OTHER -> what)
       /\ touched' = (IF what = "refresh" THEN FALSE ELSE touched)
       /\ repoMisjudged' = (IF what = "refresh" THEN FALSE ELSE repoMisjudged)
       /\ isValid' = (isValid /\ what # "refresh")
  /\ KeepsTree
  /\ UNCHANGED <<follows, repoKnown, rollbackTo, captured, halfDone, lostWork>>

(* _update_repo_state begins, and the work of others counts anew. *)
RefreshBegins(place) ==
  /\ Goes("worker", place) /\ isValid' = FALSE /\ touched' = FALSE /\ repoMisjudged' = FALSE

(* An exception in refresh_repo_state; of a refresh by itself it is swallowed. *)
RefreshRaised == Over /\ Goes("worker", "idle")

(* _check_repo_status.  Damage is seen by it or not; when it is, objects are *)
(* repaired, with a fetch, or cannot be.                                     *)
StatusRead ==
  /\ RepoAt("status")
  /\ \/ GitStep("branch") /\ SameOp /\ KeepsTree
        /\ repoKnown' = [repoKnown EXCEPT !.repo = TRUE, !.current = None, !.upstream = None]
     \/ damaged /\ GitStep("branch") /\ SameOp
        /\ damaged' = FALSE /\ tracking' = Tip
        /\ repoKnown' = [repoKnown EXCEPT !.repo = TRUE, !.corrupt = FALSE, !.current = None,
                                  !.upstream = None]
        /\ UNCHANGED <<master, detachedAt, refTold, edited>>
     \/ Spends("failures") /\ RefreshRaised /\ KeepsTree
        /\ repoKnown' = [repoKnown EXCEPT !.repo = FALSE, !.current = None, !.upstream = None,
                                  !.dirty = FALSE, !.corrupt = @ \/ damaged]
  /\ UNCHANGED <<isValid, rollbackTo, captured, ghostRepoVars>>

(* _find_current_branch *)
Branched(k) ==
  IF detachedAt = None
  THEN [k EXCEPT !.detached = FALSE, !.branch = "master", !.remote = "origin"]
  ELSE IF refTold THEN [k EXCEPT !.detached = TRUE, !.branch = "master", !.remote = "origin"]
  ELSE [k EXCEPT !.detached = TRUE]

(* A failing command ends the refresh; so it does further down. *)
CommandFails(place) ==
  /\ RepoAt(place) /\ Spends("failures") /\ RefreshRaised /\ KeepsTree
  /\ UNCHANGED <<repoKnown, isValid, rollbackTo, captured, ghostRepoVars>>

BranchFound ==
  /\ RepoAt("branch")
  /\ repoKnown' = Branched(repoKnown)
  /\ IF repoKnown'.remote = None THEN RefreshRaised ELSE GitStep("fetch") /\ SameOp
  /\ KeepsTree /\ UNCHANGED <<left, isValid, rollbackTo, captured, ghostRepoVars>>

(* fetch, and the repair of _run_git_cmd_async.  After an update or a rollback *)
(* there is none.                                                              *)
RemoteFetched ==
  /\ RepoAt("fetch") /\ GitStep("diverged") /\ SameOp
  /\ IF repoOp \in {"update", "rollback"} THEN KeepsTree
     ELSE /\ tracking' = Tip /\ damaged' \in {damaged, FALSE}
          /\ UNCHANGED <<master, detachedAt, refTold, edited>>
  /\ UNCHANGED <<repoKnown, isValid, rollbackTo, captured, ghostRepoVars>>

(* is_ancestor: true, too, when the command has failed three times *)
IsAncestor(c, d, answer) ==
  \/ answer = Precedes(c, d) /\ UNCHANGED <<left, repoMisjudged>>
  \/ answer /\ Spends("failures") /\ repoMisjudged' = TRUE

(* check_diverged *)
Diverges(answer) ==
  IF repoKnown.detached THEN ~answer /\ UNCHANGED <<left, repoMisjudged>>
  ELSE IsAncestor(HeadCommit, Commit(tracking), ~answer)

DivergenceFound ==
  /\ RepoAt("diverged") /\ Goes("worker", "head") /\ SameOp
  /\ \E d \in BOOLEAN : Diverges(d) /\ repoKnown' = [repoKnown EXCEPT !.diverged = d]
  /\ KeepsTree /\ UNCHANGED <<isValid, rollbackTo, captured, touched, halfDone, lostWork>>

(* _get_upstream_version, and _set_versions of a channel of releases *)
UpstreamOf(h) ==
  CASE follows = "branch" -> Commit(tracking)
    [] follows = "pinned" ->
         IF Pinned <= tracking /\ Precedes(h, Commit(Pinned)) THEN Commit(Pinned) ELSE h
    [] OTHER -> LET Newer == {c \in TaggedCommits : Precedes(h, Commit(c)) /\ c <= tracking}
                IN  IF Newer = {} THEN h ELSE Commit(CHOOSE c \in Newer : \A d \in Newer : d <= c)

HeadFound ==
  /\ RepoAt("head") /\ GitStep("log") /\ SameOp
  /\ repoKnown' = [repoKnown EXCEPT !.current = HeadCommit, !.upstream = UpstreamOf(HeadCommit),
                            !.dirty = edited]
  /\ KeepsTree /\ UNCHANGED <<isValid, rollbackTo, captured, ghostRepoVars>>

(* The end of refresh_repo_state, and what is asked of it *)
RefreshEnds ==
  /\ RepoAt("log")
  /\ repoKnown' = [repoKnown EXCEPT !.corrupt = FALSE]
  /\ isValid' = Valid(repoKnown')
  /\ rollbackTo' = IF \/ repoOp \in {"recover", "clone"}
                      \/ None \in {rollbackTo.commit, rollbackTo.branch}
                   THEN CapturedState(repoKnown') ELSE rollbackTo
  /\ halfDone' = FALSE
  /\ Over /\ GitStep("idle")
  /\ KeepsTree /\ UNCHANGED <<captured, touched, repoMisjudged, lostWork>>
-----------------------------------------------------------------------------
(* update *)

(* fetch of _pull_repo; a damage it sees and cannot repair makes it invalid. *)
PullFetches ==
  /\ RepoAt("pull_fetch")
  /\ captured' = CapturedState(repoKnown)
  /\ \/ /\ GitStep("pull") /\ SameOp
        /\ tracking' = Tip /\ damaged' \in {damaged, FALSE} /\ UNCHANGED <<repoKnown, isValid>>
     \/ /\ Spends("failures") /\ RefreshRaised
        /\ repoKnown' = [repoKnown EXCEPT !.corrupt = @ \/ damaged]
        /\ isValid' = (isValid /\ ~repoKnown'.corrupt)
        /\ UNCHANGED <<tracking, damaged>>
  /\ UNCHANGED <<master, detachedAt, refTold, edited, rollbackTo, ghostRepoVars>>

(* HEAD is set to a commit. *)
HeadMoves(c) ==
  IF detachedAt = None THEN master' = c /\ UNCHANGED detachedAt
  ELSE detachedAt' = c /\ UNCHANGED master

(* What reset and pull go to *)
GitTarget == IF follows = "branch" THEN Commit(tracking) ELSE repoKnown.upstream

(* reset, where it has diverged; otherwise pull, which stops at files that   *)
(* somebody has modified, or leaves them                                     *)
GitPulled ==
  /\ RepoAt("pull") /\ pc["worker"] = "pull"
  /\ \E d \in BOOLEAN :
       /\ Diverges(d)
       /\ IF d THEN /\ HeadMoves(GitTarget) /\ edited' = FALSE
                    /\ lostWork' = (lostWork \/ ((HeadCommit.own \/ edited)
                                                 /\ ~touched /\ ~repoMisjudged /\ ~halfDone))
                    /\ Goes("worker", "depend") /\ SameOp /\ rollbackTo' = captured
                    /\ halfDone' = TRUE
          ELSE \/ /\ Precedes(HeadCommit, GitTarget) /\ HeadMoves(GitTarget) /\ UNCHANGED edited
                  /\ Goes("worker", "depend") /\ SameOp /\ rollbackTo' = captured
                  /\ halfDone' = TRUE /\ UNCHANGED lostWork
               \/ /\ (edited \/ ~Precedes(HeadCommit, GitTarget) \/ detachedAt # None)
                  /\ RefreshRaised
                  /\ UNCHANGED <<master, detachedAt, edited, rollbackTo, halfDone, lostWork>>
  /\ UNCHANGED <<refTold, damaged, tracking, repoKnown, isValid, captured, touched>>

GitPullFails ==
  /\ RepoAt("pull") /\ Spends("failures") /\ RefreshRaised /\ KeepsTree
  /\ UNCHANGED <<repoKnown, isValid, rollbackTo, captured, ghostRepoVars>>

(* _update_dependencies *)
Depended ==
  /\ RepoAt("depend")
  /\ \/ RefreshBegins("status") /\ SameOp /\ UNCHANGED left
     \/ Spends("failures") /\ RefreshRaised /\ UNCHANGED <<isValid, touched, repoMisjudged>>
  /\ KeepsTree /\ UNCHANGED <<repoKnown, rollbackTo, captured, halfDone, lostWork>>
-----------------------------------------------------------------------------
(* recover and rollback *)

(* get_recovery_ref: a commit that is not there is taken for an ancestor, as *)
(* git fails otherwise than with 1: a pinned one that was never fetched, one   *)
(* made here that a clone does not have.                                       *)
Missing(c, upstream, cloned) == c.at > upstream.at \/ (cloned /\ c.own)
RecoveryRef(upstream, cloned) ==
  LET Wished == (IF follows = "pinned" THEN <<Commit(Pinned)>> ELSE <<>>) \o
                (IF repoKnown.current = None THEN <<>> ELSE <<repoKnown.current>>)
      Good == {k \in DOMAIN Wished : \/ Precedes(Wished[k], upstream)
                                     \/ Missing(Wished[k], upstream, cloned)}
  IN  IF Good = {} THEN upstream ELSE Wished[CHOOSE k \in Good : \A j \in Good : k <= j]

(* recover, without hard: modified files, the branch, the commit *)
ResetWorks(ref) ==
  /\ repoKnown.repo /\ ~Missing(ref, Commit(tracking), FALSE)
  /\ master' = ref /\ detachedAt' = None /\ edited' = FALSE
  /\ repoKnown' = [repoKnown EXCEPT !.corrupt = FALSE]
  /\ RefreshBegins("status") /\ SameOp /\ halfDone' = TRUE /\ UNCHANGED left

ResetFails(ref) ==
  /\ IF repoKnown.repo /\ ~Missing(ref, Commit(tracking), FALSE) /\ ~(edited /\ detachedAt # None)
     THEN Spends("failures") ELSE UNCHANGED left
  /\ IF repoKnown.repo THEN detachedAt' \in {detachedAt, None} /\ edited' \in {edited, FALSE}
     ELSE UNCHANGED <<detachedAt, edited>>
  /\ halfDone' = (halfDone \/ detachedAt' # detachedAt)
  /\ RefreshRaised
  /\ UNCHANGED <<master, repoKnown, isValid, touched, repoMisjudged>>

GitRecovers ==
  /\ RepoAt("recover")
  /\ LET ref == RecoveryRef(Commit(tracking), FALSE) IN ResetWorks(ref) \/ ResetFails(ref)
  /\ UNCHANGED <<refTold, damaged, tracking, rollbackTo, captured, lostWork>>

(* clone, and the way back to the commit that was current *)
Clones ==
  /\ RepoAt("clone")
  /\ LET ref == RecoveryRef(Commit(Tip), TRUE) IN
     \/ /\ tracking' = Tip /\ damaged' = FALSE /\ edited' = FALSE /\ detachedAt' = None
        /\ repoKnown' = [repoKnown EXCEPT !.corrupt = FALSE, !.repo = TRUE]
        /\ halfDone' = TRUE /\ UNCHANGED left
        /\ IF Missing(ref, Commit(Tip), TRUE)
           THEN master' = Commit(Tip) /\ RefreshRaised /\ UNCHANGED <<isValid, touched,
                                                                      repoMisjudged>>
           ELSE master' = ref /\ RefreshBegins("status") /\ SameOp
     \/ /\ Spends("failures") /\ RefreshRaised /\ KeepsTree
        /\ UNCHANGED <<repoKnown, isValid, touched, repoMisjudged, halfDone>>
  /\ UNCHANGED <<refTold, rollbackTo, captured, lostWork>>

(* rollback: checkout of another branch, then reset; without the reset HEAD is *)
(* left at the remote branch, and what was modified is modified there.          *)
RollsBack ==
  /\ RepoAt("rollback")
  /\ \/ /\ IF rollbackTo.branch = repoKnown.branch
           THEN HeadMoves(rollbackTo.commit)
           ELSE detachedAt' = rollbackTo.commit /\ UNCHANGED master
        /\ edited' = FALSE /\ halfDone' = TRUE
        /\ GitStep("depend") /\ SameOp
     \/ /\ Spends("failures") /\ RefreshRaised
        /\ \/ UNCHANGED <<detachedAt, halfDone>>
           \/ /\ rollbackTo.branch # repoKnown.branch
              /\ detachedAt' = Commit(tracking) /\ halfDone' = TRUE
        /\ UNCHANGED <<master, edited>>
  /\ UNCHANGED <<refTold, damaged, tracking, repoKnown, isValid, rollbackTo, captured, touched,
                 repoMisjudged, lostWork>>
-----------------------------------------------------------------------------
(* Others: somebody over SSH, a disk *)
Worked ==
  /\ Spends("changes") /\ PrinterStays /\ touched' = TRUE
  /\ \/ edited' = TRUE /\ UNCHANGED <<master, detachedAt, refTold, damaged>>
     \/ HeadCommit.own = FALSE /\ HeadMoves([HeadCommit EXCEPT !.own = TRUE])
        /\ UNCHANGED <<edited, refTold, damaged>>
     \/ detachedAt = None /\ detachedAt' = Commit(tracking) /\ refTold' \in BOOLEAN
        /\ UNCHANGED <<master, edited, damaged>>
     \/ ~damaged /\ damaged' = TRUE /\ UNCHANGED <<master, detachedAt, refTold, edited>>
  /\ UNCHANGED <<pc, follows, tracking, repoKnown, isValid, rollbackTo, repoOp, captured, halfDone,
                 repoMisjudged, lostWork>>

RepositoryNext ==
  \/ RepoAsked \/ StatusRead \/ BranchFound \/ RemoteFetched \/ DivergenceFound \/ HeadFound
  \/ RefreshEnds \/ PullFetches \/ GitPulled \/ GitPullFails \/ Depended \/ GitRecovers \/ Clones
  \/ RollsBack \/ Worked
  \/ \E place \in {"branch", "fetch", "diverged", "head", "log"} : CommandFails(place)

RepositoryWorks(t) == t = "worker" /\ ~Idle(t) /\ RepositoryNext /\ pc' # pc

(* A repository that counts as valid is one, as far as it was looked at:     *)
(* HEAD is what is taken for it, on the branch, without commits or           *)
(* modifications of its own, however often commands have failed.             *)
ValidIsPristine ==
  isValid /\ Idle("worker") /\ ~touched /\ ~repoMisjudged /\ ~halfDone =>
    /\ repoKnown.current = HeadCommit /\ ~HeadCommit.own
    /\ detachedAt = None /\ ~edited

(* An update never throws away a commit or a modification that was there     *)
(* when the repository was last looked at, unless a request has failed after  *)
(* it moved HEAD: a rollback may go to a commit made here, and stop there.     *)
UpdateKeepsWork == ~lostWork
=============================================================================
