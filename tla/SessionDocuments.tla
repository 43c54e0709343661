--------------------------- MODULE SessionDocuments ---------------------------
(***************************************************************************)
(* The compare-and-swap session document and the Dropbox folder links kept *)
(* in it: timeline/repository.py and dropbox/service.py.                   *)
(*                                                                         *)
(* The handlers are coroutines that give up the loop at every await of the *)
(* Mongo driver or of Dropbox. The in-memory repository never suspends, so *)
(* its behaviours are the ones where Load and Replace are adjacent. A      *)
(* document that was never written and one at revision 0 are the same: the *)
(* upsert of Mongo is taken at revision 0 only and fails on a duplicate    *)
(* key, the memory one compares with 0.                                    *)
(*                                                                         *)
(* The repositories also have `delete`, for a host that authorizes it. No  *)
(* code calls it, and it would restart the revision; it is left out.       *)
(*                                                                         *)
(* Requests that fail the grant check, or that Dropbox refuses before the  *)
(* document is touched, change nothing and are left out.                   *)
(***************************************************************************)
EXTENDS Naturals, FiniteSets

CONSTANTS
    Actors, Folders,
    Requests,        \* calls the run may receive (bound)
    MaxAttempts,     \* MAX_WRITE_ATTEMPTS
    MaxLinks,        \* capacity of folder_links
    None             \* no folder, no actor

ASSUME ConstantsAssumption ==
    /\ MaxAttempts \in Nat \ {0}
    /\ MaxLinks \in Nat
    /\ None \notin Folders /\ None \notin Actors
    /\ None \notin [actor : Actors, folder : Folders]

VARIABLES
    doc,       \* the stored document: revision and folder_links
    req,       \* the requests
    exports    \* artifacts written to Dropbox: the actor and the folder

vars == <<doc, req, exports>>

Link == [actor : Actors, folder : Folders]
Document == [revision : Nat, links : SUBSET Link]

Empty == [revision |-> 0, links |-> {}]

(* seen is the snapshot the request works on, tried the writes that lost,  *)
(* from the revision of the document when the request began.               *)
Request ==
    [at : {"idle", "linking", "loaded", "exporting", "writing",
           "linked", "conflict", "full", "unlinked", "exported"},
     actor : Actors \cup {None}, folder : Folders \cup {None},
     seen : Document, tried : Nat, from : Nat]

Idle == [at |-> "idle", actor |-> None, folder |-> None, seen |-> Empty,
         tried |-> 0, from |-> 0]

-----------------------------------------------------------------------------
Begin(r, a, f, next) ==
    /\ req[r].at = "idle"
    /\ req' = [req EXCEPT ![r] = [Idle EXCEPT !.at = next, !.actor = a,
                                   !.folder = f, !.from = doc.revision]]
    /\ UNCHANGED <<doc, exports>>

(* Dropbox has verified the folder for this actor.                         *)
BeginLink(r, a, f) == Begin(r, a, f, "linking")

BeginExport(r, a) == Begin(r, a, None, "exporting")

Load(r) ==
    /\ req[r].at = "linking"
    /\ req' = [req EXCEPT ![r].at = "loaded", ![r].seen = doc]
    /\ UNCHANGED <<doc, exports>>

Others(links, a) == {l \in links : l.actor # a}

Relinked(links, a, f) == Others(links, a) \cup {[actor |-> a, folder |-> f]}

Fits(links, a) == Cardinality(Others(links, a)) < MaxLinks

RefuseFull(r) ==
    /\ req[r].at = "loaded"
    /\ ~Fits(req[r].seen.links, req[r].actor)
    /\ req' = [req EXCEPT ![r].at = "full"]
    /\ UNCHANGED <<doc, exports>>

MatchesAlways(r) == TRUE   \* slip: the revision is not compared

Matches(r) == doc.revision = req[r].seen.revision

Replace(r) ==
    /\ req[r].at = "loaded"
    /\ Fits(req[r].seen.links, req[r].actor)
    /\ Matches(r)
    /\ doc' = [revision |-> req[r].seen.revision + 1,
               links |-> Relinked(req[r].seen.links, req[r].actor, req[r].folder)]
    /\ req' = [req EXCEPT ![r].at = "linked"]
    /\ UNCHANGED exports

AttemptsLeftOffByOne(r) == req[r].tried + 2 < MaxAttempts   \* slip: one attempt fewer

AttemptsLeft(r) == req[r].tried + 1 < MaxAttempts

(* A write that lost the race starts over, until the attempts are used up. *)
LoseReplace(r) ==
    /\ req[r].at = "loaded"
    /\ Fits(req[r].seen.links, req[r].actor)
    /\ ~Matches(r)
    /\ req' = [req EXCEPT ![r].at = IF AttemptsLeft(r) THEN "linking" ELSE "conflict",
                          ![r].tried = @ + 1]
    /\ UNCHANGED <<doc, exports>>

-----------------------------------------------------------------------------
OwnLinks(r) == {l \in doc.links : l.actor = req[r].actor}

RefuseUnlinked(r) ==
    /\ req[r].at = "exporting"
    /\ OwnLinks(r) = {}
    /\ req' = [req EXCEPT ![r].at = "unlinked"]
    /\ UNCHANGED <<doc, exports>>

(* The folder is read before the artifact is awaited and used after it.    *)
ReadFolder(r) ==
    /\ req[r].at = "exporting"
    /\ \E l \in OwnLinks(r) :
         req' = [req EXCEPT ![r].at = "writing", ![r].folder = l.folder]
    /\ UNCHANGED <<doc, exports>>

(* A file that exists already is refused by Dropbox.                       *)
WriteFile(r) ==
    /\ req[r].at = "writing"
    /\ exports' \in {exports, exports \cup {[actor |-> req[r].actor, folder |-> req[r].folder]}}
    /\ req' = [req EXCEPT ![r].at = "exported"]
    /\ UNCHANGED doc

-----------------------------------------------------------------------------
Init ==
    /\ doc = Empty
    /\ req = [r \in Requests |-> Idle]
    /\ exports = {}

Step(r) ==
    \/ \E a \in Actors, f \in Folders : BeginLink(r, a, f)
    \/ \E a \in Actors : BeginExport(r, a)
    \/ Load(r) \/ RefuseFull(r) \/ Replace(r) \/ LoseReplace(r)
    \/ RefuseUnlinked(r) \/ ReadFolder(r) \/ WriteFile(r)

Next == \E r \in Requests : Step(r)

Spec == Init /\ [][Next]_vars

-----------------------------------------------------------------------------
TypeOK ==
    /\ doc \in Document
    /\ req \in [Requests -> Request]
    /\ exports \in SUBSET Link

(* An actor has one folder in a session: the last one it selected.         *)
OneFolderPerActor ==
    \A k, l \in doc.links : k.actor = l.actor => k = l

(* 409 write_conflict is an answer to contention only: the document was    *)
(* written by others at least once for every attempt of the request.       *)
ConflictMeansContention ==
    \A r \in Requests :
        req[r].at = "conflict" => doc.revision >= req[r].from + MaxAttempts

-----------------------------------------------------------------------------
(* mutate_session applies a change atomically: each link takes effect at   *)
(* once or not at all, and no acknowledged link is lost to another one.    *)
FolderOf(a) ==
    IF \E l \in doc.links : l.actor = a
    THEN (CHOOSE l \in doc.links : l.actor = a).folder
    ELSE None

LinkRequest(r) ==
    req[r].at \in {"linking", "loaded", "linked", "conflict", "full"}

AskedBy(r) ==
    IF LinkRequest(r)
    THEN [actor |-> req[r].actor, folder |-> req[r].folder]
    ELSE None

AnswerOf(r) ==
    CASE req[r].at = "linked" -> "linked"
      [] req[r].at \in {"conflict", "full"} -> "refused"
      [] OTHER -> "none"

Atomic == INSTANCE AtomicLinks WITH
    links <- [a \in Actors |-> FolderOf(a)],
    asked <- [r \in Requests |-> AskedBy(r)],
    answer <- [r \in Requests |-> AnswerOf(r)]

LinksAreAtomic == Atomic!Spec
=============================================================================
