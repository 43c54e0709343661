------------------------ MODULE SessionDocumentsProofs ------------------------
(***************************************************************************)
(* Why compare-and-swap makes a link atomic. A snapshot that carries the   *)
(* revision of the stored document is the stored document (SeenIsPast):    *)
(* replacing the document by what was computed from such a snapshot is     *)
(* computing it from the document itself. A deletion that resets the       *)
(* revision would break that; the model has none, as no code deletes.      *)
(***************************************************************************)
EXTENDS SessionDocuments, TLAPS

Unique(links) == \A k, l \in links : k.actor = l.actor => k = l

(* The arguments of a request are set while it works.                      *)
ArgumentsSet ==
    \A r \in Requests :
        /\ req[r].at \notin {"idle"} => req[r].actor \in Actors
        /\ req[r].at \in {"linking", "loaded", "linked", "writing"} => req[r].folder \in Folders

SeenUnique == \A r \in Requests : Unique(req[r].seen.links)

Safe == TypeOK /\ ArgumentsSet /\ SeenUnique /\ OneFolderPerActor

-----------------------------------------------------------------------------
LEMMA IdleTyped == Idle \in Request
BY DEF Idle, Request, Empty, Document

LEMMA RelinkedTyped ==
    ASSUME NEW links \in SUBSET Link, NEW a \in Actors, NEW f \in Folders
    PROVE  Relinked(links, a, f) \in SUBSET Link
BY DEF Relinked, Others, Link

(* Dropping the actor's links and adding one leaves the actor with one.    *)
LEMMA RelinkedUnique ==
    ASSUME NEW links \in SUBSET Link, NEW a \in Actors, NEW f \in Folders, Unique(links)
    PROVE  Unique(Relinked(links, a, f))
BY DEF Relinked, Others, Link, Unique

LEMMA SafeInit == Init => Safe
<1> SUFFICES ASSUME Init PROVE Safe
  OBVIOUS
<1>1. TypeOK
  BY IdleTyped DEF Init, TypeOK, Empty, Document
<1>2. ArgumentsSet /\ SeenUnique
  BY DEF Init, ArgumentsSet, SeenUnique, Idle, Empty, Unique
<1>3. OneFolderPerActor
  BY DEF Init, OneFolderPerActor, Empty
<1> QED BY <1>1, <1>2, <1>3 DEF Safe

(* Steps that leave the document alone and rewrite one request.            *)
LEMMA SafeFrame ==
    ASSUME Safe, NEW r \in Requests, NEW q \in Request,
           req' = [req EXCEPT ![r] = q], doc' = doc, exports' \in SUBSET Link,
           q.at \notin {"idle"} => q.actor \in Actors,
           q.at \in {"linking", "loaded", "linked", "writing"} => q.folder \in Folders,
           Unique(q.seen.links)
    PROVE  Safe'
<1>1. TypeOK'
  BY DEF Safe, TypeOK
<1>2. ArgumentsSet'
  BY DEF Safe, TypeOK, ArgumentsSet
<1>3. SeenUnique'
  BY DEF Safe, TypeOK, SeenUnique
<1>4. OneFolderPerActor'
  BY DEF Safe, OneFolderPerActor
<1> QED BY <1>1, <1>2, <1>3, <1>4 DEF Safe

LEMMA SafeStep == Safe /\ [Next]_vars => Safe'
<1> SUFFICES ASSUME Safe, [Next]_vars PROVE Safe'
  OBVIOUS
<1> USE DEF Safe
<1>2. ASSUME NEW r \in Requests, Step(r) PROVE Safe'
  <2> DEFINE old == req[r]
  <2>0. old \in Request /\ doc \in Document /\ exports \in SUBSET Link
    BY DEF TypeOK
  <2>1. ASSUME NEW a \in Actors, NEW f \in Folders \cup {None}, NEW next,
               next \in {"linking", "exporting"}, next = "linking" => f \in Folders,
               Begin(r, a, f, next)
        PROVE  Safe'
    <3> DEFINE q == [Idle EXCEPT !.at = next, !.actor = a, !.folder = f, !.from = doc.revision]
    <3>1. q \in Request /\ q.at = next /\ q.actor = a /\ q.folder = f /\ q.seen = Empty
      BY <2>0, <2>1, IdleTyped DEF Idle, Request, Document, Empty
    <3>2. Unique(q.seen.links)
      BY <3>1 DEF Empty, Unique
    <3>3. req' = [req EXCEPT ![r] = q] /\ doc' = doc /\ exports' = exports
      BY <2>1 DEF Begin
    <3> HIDE DEF q
    <3> QED BY <2>0, <2>1, <3>1, <3>2, <3>3, SafeFrame
  <2>2. CASE \E a \in Actors, f \in Folders : BeginLink(r, a, f)
    BY <2>1, <2>2 DEF BeginLink
  <2>3. CASE \E a \in Actors : BeginExport(r, a)
    BY <2>1, <2>3 DEF BeginExport
  <2>4. CASE Load(r)
    <3> DEFINE q == [old EXCEPT !.at = "loaded", !.seen = doc]
    <3>1. q \in Request /\ q.at = "loaded" /\ q.actor = old.actor /\ q.folder = old.folder /\ q.seen = doc
      BY <2>0 DEF Request
    <3>2. req' = [req EXCEPT ![r] = q] /\ doc' = doc /\ exports' = exports
      BY <2>0, <2>4 DEF Load, TypeOK
    <3>3. Unique(q.seen.links)
      BY <3>1 DEF OneFolderPerActor, Unique
    <3>4. q.actor \in Actors /\ q.folder \in Folders
      BY <2>4, <3>1 DEF Load, ArgumentsSet
    <3> HIDE DEF q
    <3> QED BY <2>0, <3>1, <3>2, <3>3, <3>4, SafeFrame
  <2>5. CASE RefuseFull(r)
    <3> DEFINE q == [old EXCEPT !.at = "full"]
    <3>1. q \in Request /\ q.at = "full" /\ q.actor = old.actor /\ q.seen = old.seen
      BY <2>0 DEF Request
    <3>2. req' = [req EXCEPT ![r] = q] /\ doc' = doc /\ exports' = exports
      BY <2>0, <2>5 DEF RefuseFull, TypeOK
    <3>3. q.actor \in Actors /\ Unique(q.seen.links)
      BY <2>5, <3>1 DEF RefuseFull, ArgumentsSet, SeenUnique
    <3> HIDE DEF q
    <3> QED BY <2>0, <3>1, <3>2, <3>3, SafeFrame
  <2>6. CASE Replace(r)
    <3> DEFINE new == Relinked(old.seen.links, old.actor, old.folder)
    <3>1. old.actor \in Actors /\ old.folder \in Folders /\ Unique(old.seen.links)
      BY <2>6 DEF Replace, ArgumentsSet, SeenUnique
    <3>2. old.seen \in Document /\ old.seen.links \in SUBSET Link /\ old.seen.revision \in Nat
      BY <2>0 DEF Request, Document
    <3>3. new \in SUBSET Link /\ Unique(new)
      BY <3>1, <3>2, RelinkedTyped, RelinkedUnique
    <3>4. doc' = [revision |-> old.seen.revision + 1, links |-> new]
      BY <2>6 DEF Replace
    <3>5. req' = [req EXCEPT ![r].at = "linked"] /\ exports' = exports
      BY <2>6 DEF Replace
    <3>6. doc' \in Document /\ Unique(doc'.links)
      BY <3>2, <3>3, <3>4 DEF Document
    <3>7. [old EXCEPT !.at = "linked"] \in Request
      BY <2>0 DEF Request
    <3>8. TypeOK'
      BY <3>5, <3>6, <3>7 DEF TypeOK
    <3>9. ArgumentsSet'
      BY <3>1, <3>5 DEF TypeOK, ArgumentsSet, Request
    <3>10. SeenUnique'
      BY <3>5 DEF TypeOK, SeenUnique, Request
    <3>11. OneFolderPerActor'
      BY <3>6 DEF OneFolderPerActor, Unique
    <3> QED BY <3>8, <3>9, <3>10, <3>11
  <2>7. CASE LoseReplace(r)
    <3> DEFINE at == IF AttemptsLeft(r) THEN "linking" ELSE "conflict"
    <3>0. at \in {"linking", "conflict"}
      OBVIOUS
    <3> DEFINE n == old.tried + 1
    <3> DEFINE q == [old EXCEPT !.at = at, !.tried = n]
    <3>a. n \in Nat
      BY <2>0 DEF Request
    <3> HIDE DEF at, n
    <3>1. q \in Request /\ q.at = at /\ q.actor = old.actor /\ q.folder = old.folder /\ q.seen = old.seen
      BY <2>0, <3>0, <3>a DEF Request
    <3>2. req' = [req EXCEPT ![r] = q] /\ doc' = doc /\ exports' = exports
      BY <2>0, <2>7 DEF LoseReplace, TypeOK, at, n
    <3>3. q.actor \in Actors /\ q.folder \in Folders /\ Unique(q.seen.links)
      BY <2>7, <3>1 DEF LoseReplace, ArgumentsSet, SeenUnique
    <3> HIDE DEF q
    <3> QED BY <2>0, <3>0, <3>1, <3>2, <3>3, SafeFrame
  <2>8. CASE RefuseUnlinked(r)
    <3> DEFINE q == [old EXCEPT !.at = "unlinked"]
    <3>1. q \in Request /\ q.at = "unlinked" /\ q.actor = old.actor /\ q.seen = old.seen
      BY <2>0 DEF Request
    <3>2. req' = [req EXCEPT ![r] = q] /\ doc' = doc /\ exports' = exports
      BY <2>0, <2>8 DEF RefuseUnlinked, TypeOK
    <3>3. q.actor \in Actors /\ Unique(q.seen.links)
      BY <2>8, <3>1 DEF RefuseUnlinked, ArgumentsSet, SeenUnique
    <3> HIDE DEF q
    <3> QED BY <2>0, <3>1, <3>2, <3>3, SafeFrame
  <2>9. CASE ReadFolder(r)
    <3>1. PICK l \in OwnLinks(r) :
             req' = [req EXCEPT ![r].at = "writing", ![r].folder = l.folder]
      BY <2>9 DEF ReadFolder
    <3>2. l \in Link
      BY <2>0 DEF OwnLinks, Document
    <3> DEFINE q == [old EXCEPT !.at = "writing", !.folder = l.folder]
    <3>3. q \in Request /\ q.at = "writing" /\ q.actor = old.actor /\ q.folder \in Folders /\ q.seen = old.seen
      BY <2>0, <3>2 DEF Request, Link
    <3>4. req' = [req EXCEPT ![r] = q] /\ doc' = doc /\ exports' = exports
      BY <2>0, <2>9, <3>1 DEF ReadFolder, TypeOK
    <3>5. q.actor \in Actors /\ Unique(q.seen.links)
      BY <2>9, <3>3 DEF ReadFolder, ArgumentsSet, SeenUnique
    <3> HIDE DEF q
    <3> QED BY <2>0, <3>3, <3>4, <3>5, SafeFrame
  <2>10. CASE WriteFile(r)
    <3> DEFINE q == [old EXCEPT !.at = "exported"]
    <3>1. q \in Request /\ q.at = "exported" /\ q.actor = old.actor /\ q.seen = old.seen
      BY <2>0 DEF Request
    <3>2. req' = [req EXCEPT ![r] = q] /\ doc' = doc
      BY <2>0, <2>10 DEF WriteFile, TypeOK
    <3>3. old.actor \in Actors /\ old.folder \in Folders /\ Unique(old.seen.links)
      BY <2>10 DEF WriteFile, ArgumentsSet, SeenUnique
    <3>4. exports' \in SUBSET Link
      BY <2>0, <2>10, <3>3 DEF WriteFile, Link
    <3> HIDE DEF q
    <3> QED BY <2>0, <3>1, <3>2, <3>3, <3>4, SafeFrame
  <2> QED BY <1>2, <2>2, <2>3, <2>4, <2>5, <2>6, <2>7, <2>8, <2>9, <2>10 DEF Step
<1>3. CASE UNCHANGED vars
  BY <1>3 DEF vars, TypeOK, ArgumentsSet, SeenUnique, OneFolderPerActor
<1> QED BY <1>2, <1>3 DEF Next

LEMMA AlwaysSafe == Spec => []Safe
BY SafeInit, SafeStep, PTL DEF Spec

(* Every reachable state of the document, the requests and the exports is  *)
(* of its declared shape (SessionState, FolderLink and the routes' calls). *)
THEOREM TypeCorrect == Spec => []TypeOK
<1>1. Safe => TypeOK
  BY DEF Safe
<1> QED BY <1>1, AlwaysSafe, PTL

(* However links and exports interleave, the stored document never holds   *)
(* two folders of one actor (DropboxService.link).                         *)
THEOREM OneFolder == Spec => []OneFolderPerActor
<1>1. Safe => OneFolderPerActor
  BY DEF Safe
<1> QED BY <1>1, AlwaysSafe, PTL

-----------------------------------------------------------------------------
(* A snapshot is a past state of the document and, when it carries the     *)
(* document's revision, its present one.                                   *)
SeenIsPast ==
    \A r \in Requests :
        req[r].at = "loaded" =>
            /\ req[r].seen.revision <= doc.revision
            /\ req[r].seen.revision = doc.revision => req[r].seen = doc

(* Each lost write was lost to a later revision.                           *)
LossesCounted ==
    \A r \in Requests :
        /\ req[r].from <= doc.revision
        /\ req[r].at = "linking" => doc.revision >= req[r].from + req[r].tried
        /\ req[r].at = "loaded" => req[r].seen.revision >= req[r].from + req[r].tried
        /\ req[r].at = "conflict" => doc.revision >= req[r].from + MaxAttempts

Ordered == SeenIsPast /\ LossesCounted

LEMMA OrderedInit == Init => Ordered
BY DEF Init, Ordered, SeenIsPast, LossesCounted, Idle, Empty

(* Steps that leave the document alone and rewrite one request.            *)
LEMMA OrderedFrame ==
    ASSUME TypeOK, Ordered, NEW r \in Requests, NEW q \in Request,
           req' = [req EXCEPT ![r] = q], doc' = doc,
           q.from <= doc.revision,
           q.at = "linking" => doc.revision >= q.from + q.tried,
           q.at = "loaded" => q.seen = doc /\ q.seen.revision >= q.from + q.tried,
           q.at = "conflict" => doc.revision >= q.from + MaxAttempts
    PROVE  Ordered'
<1>0. \A p \in Requests : req'[p] = IF p = r THEN q ELSE req[p]
  BY DEF TypeOK
<1>1. doc.revision \in Nat
  BY DEF TypeOK, Document
<1>2. SeenIsPast'
  BY <1>0, <1>1 DEF Ordered, SeenIsPast
<1>3. LossesCounted'
  BY <1>0, <1>1 DEF Ordered, LossesCounted
<1> QED BY <1>2, <1>3 DEF Ordered

LEMMA OrderedStep ==
    ASSUME Safe, Ordered, [Next]_vars
    PROVE  Ordered'
<1> USE DEF Safe
<1>2. ASSUME NEW r \in Requests, Step(r) PROVE Ordered'
  <2> DEFINE old == req[r]
  <2>0. /\ old \in Request /\ doc \in Document /\ doc.revision \in Nat
        /\ old.from \in Nat /\ old.tried \in Nat
        /\ old.seen \in Document /\ old.seen.revision \in Nat
        /\ old.from <= doc.revision
    BY DEF TypeOK, Document, Request, Ordered, LossesCounted
  <2>1. ASSUME NEW a \in Actors, NEW f \in Folders \cup {None},
               NEW next \in {"linking", "exporting"}, Begin(r, a, f, next)
        PROVE  Ordered'
    <3> DEFINE q == [Idle EXCEPT !.at = next, !.actor = a, !.folder = f, !.from = doc.revision]
    <3>1. q \in Request /\ q.at = next /\ q.from = doc.revision /\ q.tried = 0
      BY <2>0, IdleTyped DEF Idle, Request, Document, Empty
    <3>2. req' = [req EXCEPT ![r] = q] /\ doc' = doc
      BY <2>1 DEF Begin
    <3> HIDE DEF q
    <3>3. q.from <= doc.revision /\ doc.revision >= q.from + q.tried
      BY <2>0, <3>1
    <3> QED BY <2>0, <3>1, <3>2, <3>3, OrderedFrame
  <2>2. CASE \E a \in Actors, f \in Folders : BeginLink(r, a, f)
    BY <2>1, <2>2 DEF BeginLink
  <2>3. CASE \E a \in Actors : BeginExport(r, a)
    BY <2>1, <2>3 DEF BeginExport
  <2>4. CASE Load(r)
    <3> DEFINE q == [old EXCEPT !.at = "loaded", !.seen = doc]
    <3>1. /\ q \in Request /\ q.at = "loaded" /\ q.seen = doc
          /\ q.from = old.from /\ q.tried = old.tried
      BY <2>0 DEF Request
    <3>2. req' = [req EXCEPT ![r] = q] /\ doc' = doc
      BY <2>0, <2>4 DEF Load, TypeOK
    <3>3. doc.revision >= q.from + q.tried
      BY <2>4, <3>1 DEF Load, Ordered, LossesCounted
    <3> HIDE DEF q
    <3> QED BY <2>0, <3>1, <3>2, <3>3, OrderedFrame
  <2>5. ASSUME NEW at \in {"full", "unlinked", "exported"},
               req' = [req EXCEPT ![r].at = at], doc' = doc
        PROVE  Ordered'
    <3> DEFINE q == [old EXCEPT !.at = at]
    <3>1. q \in Request /\ q.at = at /\ q.from = old.from
      BY <2>0 DEF Request
    <3>2. req' = [req EXCEPT ![r] = q]
      BY <2>0, <2>5 DEF TypeOK
    <3> HIDE DEF q
    <3> QED BY <2>0, <2>5, <3>1, <3>2, OrderedFrame
  <2>6. CASE RefuseFull(r) \/ RefuseUnlinked(r) \/ WriteFile(r)
    BY <2>5, <2>6 DEF RefuseFull, RefuseUnlinked, WriteFile
  <2>7. CASE Replace(r)
    <3>1. /\ old.seen.revision = doc.revision
          /\ doc'.revision = doc.revision + 1
          /\ req' = [req EXCEPT ![r].at = "linked"]
      BY <2>0, <2>7 DEF Replace, Matches
    <3>2. \A p \in Requests : p # r => req'[p] = req[p]
      BY <3>1 DEF TypeOK
    <3>3. req'[r].at = "linked" /\ req'[r].from = old.from
      BY <2>0, <3>1 DEF TypeOK, Request
    <3>4. \A p \in Requests : req[p].seen.revision \in Nat /\ req[p].from \in Nat /\ req[p].tried \in Nat
      BY DEF TypeOK, Request, Document
    <3>5. SeenIsPast'
      BY <2>0, <3>1, <3>2, <3>3, <3>4 DEF Ordered, SeenIsPast
    <3>6. LossesCounted'
      BY <2>0, <3>1, <3>2, <3>3, <3>4, ConstantsAssumption DEF Ordered, LossesCounted, ConstantsAssumption
    <3> QED BY <3>5, <3>6 DEF Ordered
  <2>8. CASE LoseReplace(r)
    <3>1. /\ old.seen.revision # doc.revision
          /\ old.seen.revision <= doc.revision
          /\ old.seen.revision >= old.from + old.tried
      BY <2>8 DEF LoseReplace, Matches, Ordered, SeenIsPast, LossesCounted
    <3>2. doc.revision >= old.from + (old.tried + 1)
      BY <2>0, <3>1
    <3> DEFINE at == IF AttemptsLeft(r) THEN "linking" ELSE "conflict"
    <3>3. at \in {"linking", "conflict"} /\ (at = "conflict" => old.tried + 1 >= MaxAttempts)
      BY <2>0, ConstantsAssumption DEF AttemptsLeft, ConstantsAssumption
    <3> DEFINE n == old.tried + 1
    <3> DEFINE q == [old EXCEPT !.at = at, !.tried = n]
    <3>4. req' = [req EXCEPT ![r] = q] /\ doc' = doc
      BY <2>0, <2>8 DEF LoseReplace, TypeOK
    <3>a. n \in Nat /\ n = old.tried + 1
      BY <2>0
    <3> HIDE DEF at, n
    <3>5. q \in Request /\ q.at = at /\ q.from = old.from /\ q.tried = n
      BY <2>0, <3>3, <3>a DEF Request
    <3> HIDE DEF q
    <3>6. q.at = "conflict" => doc.revision >= q.from + MaxAttempts
      BY <2>0, <3>a, <3>2, <3>3, <3>5, ConstantsAssumption DEF ConstantsAssumption
    <3> QED BY <2>0, <3>a, <3>2, <3>3, <3>4, <3>5, <3>6, OrderedFrame
  <2>9. CASE ReadFolder(r)
    <3>1. PICK l \in OwnLinks(r) :
             req' = [req EXCEPT ![r].at = "writing", ![r].folder = l.folder]
      BY <2>9 DEF ReadFolder
    <3>2. l \in Link
      BY <2>0 DEF OwnLinks, Document
    <3> DEFINE q == [old EXCEPT !.at = "writing", !.folder = l.folder]
    <3>3. q \in Request /\ q.at = "writing" /\ q.from = old.from
      BY <2>0, <3>2 DEF Request, Link
    <3>4. req' = [req EXCEPT ![r] = q] /\ doc' = doc
      BY <2>0, <2>9, <3>1 DEF ReadFolder, TypeOK
    <3> HIDE DEF q
    <3> QED BY <2>0, <3>3, <3>4, OrderedFrame
  <2> QED BY <1>2, <2>2, <2>3, <2>4, <2>6, <2>7, <2>8, <2>9 DEF Step
<1>3. CASE UNCHANGED vars
  BY <1>3 DEF vars, Ordered, SeenIsPast, LossesCounted
<1> QED BY <1>2, <1>3 DEF Next

LEMMA AlwaysOrdered == Spec => [](Safe /\ Ordered)
<1>1. Init => Safe /\ Ordered
  BY SafeInit, OrderedInit
<1>2. Safe /\ Ordered /\ [Next]_vars => (Safe /\ Ordered)'
  BY SafeStep, OrderedStep
<1> QED BY <1>1, <1>2, PTL DEF Spec

(* mutate_session answers 409 only when its MAX_WRITE_ATTEMPTS writes were *)
(* each overtaken by another request's (timeline/repository.py).           *)
THEOREM ConflictNeedsContention == Spec => []ConflictMeansContention
<1>1. Ordered => ConflictMeansContention
  BY DEF Ordered, LossesCounted, ConflictMeansContention
<1> QED BY <1>1, AlwaysOrdered, PTL

-----------------------------------------------------------------------------
(* The refinement: what each request's state stands for in AtomicLinks.    *)
Held == [a \in Actors |-> FolderOf(a)]
Asked == [r \in Requests |-> AskedBy(r)]
Answers == [r \in Requests |-> AnswerOf(r)]

LEMMA LinkIsSome == \A l \in Link : l # None
BY ConstantsAssumption DEF ConstantsAssumption, Link

LEMMA FolderHeld ==
    ASSUME Unique(doc.links), NEW l \in doc.links
    PROVE  FolderOf(l.actor) = l.folder
BY DEF FolderOf, Unique

(* Replacing the document changes the folder of the request's actor only.  *)
LEMMA Relinking ==
    ASSUME Safe, NEW a \in Actors, NEW f \in Folders,
           doc'.links = Relinked(doc.links, a, f)
    PROVE  Held' = [Held EXCEPT ![a] = f]
<1>1. doc.links \in SUBSET Link
  BY DEF Safe, TypeOK, Document
<1>2. Unique(doc.links) /\ Unique(doc'.links)
  BY <1>1, RelinkedUnique DEF Safe, OneFolderPerActor, Unique
<1>3. FolderOf(a)' = f
  <2>1. [actor |-> a, folder |-> f] \in doc'.links
    BY DEF Relinked
  <2> QED BY <1>2, <2>1 DEF FolderOf, Unique
<1>4. ASSUME NEW b \in Actors, b # a PROVE FolderOf(b)' = FolderOf(b)
  <2>1. \A l : l \in doc'.links /\ l.actor = b <=> l \in doc.links /\ l.actor = b
    BY <1>1, <1>4 DEF Relinked, Others, Link
  <2>2. CASE \E l \in doc.links : l.actor = b
    <3>1. PICK l \in doc.links : l.actor = b
      BY <2>2
    <3>2. FolderOf(b) = l.folder
      BY <1>2, <3>1, FolderHeld
    <3>3. FolderOf(b)' = l.folder
      BY <1>2, <2>1, <3>1 DEF FolderOf, Unique
    <3> QED BY <3>2, <3>3
  <2>3. CASE ~\E l \in doc.links : l.actor = b
    BY <2>1, <2>3 DEF FolderOf
  <2> QED BY <2>2, <2>3
<1> QED BY <1>3, <1>4 DEF Held

LEMMA RefinesInit == Init => Atomic!Init
<1> SUFFICES ASSUME Init PROVE Atomic!Init
  OBVIOUS
<1>1. \A a \in Actors : FolderOf(a) = None
  BY DEF Init, Empty, FolderOf
<1>2. \A r \in Requests : AskedBy(r) = None /\ AnswerOf(r) = "none"
  BY DEF Init, Idle, AskedBy, LinkRequest, AnswerOf
<1> QED BY <1>1, <1>2 DEF Atomic!Init

(* Only request r moves: its link and its answer are all that may change.  *)
LEMMA OneMoves ==
    ASSUME TypeOK, NEW r \in Requests, NEW q, req' = [req EXCEPT ![r] = q]
    PROVE  /\ Asked' = [Asked EXCEPT ![r] = AskedBy(r)']
           /\ Answers' = [Answers EXCEPT ![r] = AnswerOf(r)']
<1>1. \A p \in Requests : p # r => req'[p] = req[p]
  BY DEF TypeOK
<1>2. \A p \in Requests : p # r => AskedBy(p)' = AskedBy(p) /\ AnswerOf(p)' = AnswerOf(p)
  BY <1>1 DEF AskedBy, LinkRequest, AnswerOf
<1> QED BY <1>2 DEF Asked, Answers

LEMMA RefinesStep ==
    ASSUME Safe, Ordered, [Next]_vars
    PROVE  [Atomic!Next]_(Atomic!vars)
<1> USE DEF Safe
<1>2. ASSUME NEW r \in Requests, Step(r) PROVE [Atomic!Next]_(Atomic!vars)
  <2> DEFINE old == req[r]
  <2>0. old \in Request
    BY DEF TypeOK
  <2>1. ASSUME Held' = Held, Asked' = Asked, Answers' = Answers
        PROVE  [Atomic!Next]_(Atomic!vars)
    BY <2>1 DEF Atomic!vars, Held, Asked, Answers
  <2>2. ASSUME old.at \in {"linking", "loaded"}, Held' = Held, Asked' = Asked,
               Answers' = [Answers EXCEPT ![r] = "refused"]
        PROVE  [Atomic!Next]_(Atomic!vars)
    <3>1. old.actor \in Actors /\ old.folder \in Folders
      BY <2>2 DEF ArgumentsSet
    <3>2. Asked[r] # None /\ Answers[r] = "none"
      BY <2>2, <3>1, LinkIsSome DEF Asked, Answers, AskedBy, AnswerOf, LinkRequest, Link
    <3>3. Atomic!Refuse(r)
      BY <2>2, <3>2 DEF Atomic!Refuse, Atomic!Pending, Held, Asked, Answers
    <3> QED BY <3>3 DEF Atomic!Next
  <2>3. doc' = doc => Held' = Held
    BY DEF Held, FolderOf
  <2>4. CASE \E a \in Actors, f \in Folders : BeginLink(r, a, f)
    <3>1. PICK a \in Actors, f \in Folders : BeginLink(r, a, f)
      BY <2>4
    <3> DEFINE q == [Idle EXCEPT !.at = "linking", !.actor = a, !.folder = f, !.from = doc.revision]
    <3> DEFINE l == [actor |-> a, folder |-> f]
    <3>2. old.at = "idle" /\ req' = [req EXCEPT ![r] = q] /\ doc' = doc
      BY <3>1 DEF BeginLink, Begin
    <3>3. q.at = "linking" /\ q.actor = a /\ q.folder = f
      BY DEF Idle
    <3>4. req'[r] = q
      BY <3>2 DEF TypeOK
    <3> HIDE DEF q
    <3>5. AskedBy(r)' = l /\ AnswerOf(r)' = "none"
      BY <3>3, <3>4 DEF AskedBy, LinkRequest, AnswerOf
    <3>6. Asked[r] = None /\ Answers[r] = "none"
      BY <3>2 DEF Asked, Answers, AskedBy, LinkRequest, AnswerOf
    <3>7. Asked' = [Asked EXCEPT ![r] = l] /\ Answers' = Answers
      <4>1. Asked' = [Asked EXCEPT ![r] = l] /\ Answers' = [Answers EXCEPT ![r] = "none"]
        BY <3>2, <3>5, OneMoves
      <4> QED BY <3>6, <4>1 DEF Answers
    <3>8. Atomic!Ask(r, l)
      BY <2>3, <3>2, <3>6, <3>7 DEF Atomic!Ask, Held, Asked, Answers
    <3>9. l \in Atomic!Link
      BY DEF Atomic!Link
    <3> QED BY <3>8, <3>9 DEF Atomic!Next
  <2>5. ASSUME NEW q, req' = [req EXCEPT ![r] = q], doc' = doc,
               \/ /\ ~LinkRequest(r)
                  /\ q.at \in {"exporting", "writing", "unlinked", "exported"}
               \/ /\ old.at \in {"linking", "loaded"} /\ q.at \in {"linking", "loaded"}
                  /\ q.actor = old.actor /\ q.folder = old.folder
        PROVE  [Atomic!Next]_(Atomic!vars)
    <3>1. req'[r] = q
      BY <2>5 DEF TypeOK
    <3>2. AskedBy(r)' = Asked[r] /\ AnswerOf(r)' = Answers[r]
      BY <2>5, <3>1 DEF Asked, Answers, AskedBy, LinkRequest, AnswerOf
    <3>3. Asked' = Asked /\ Answers' = Answers
      BY <2>5, <3>2, OneMoves DEF Asked, Answers
    <3> QED BY <2>1, <2>3, <2>5, <3>3
  <2>6. CASE \E a \in Actors : BeginExport(r, a)
    <3>1. PICK a \in Actors : BeginExport(r, a)
      BY <2>6
    <3> DEFINE q == [Idle EXCEPT !.at = "exporting", !.actor = a, !.folder = None, !.from = doc.revision]
    <3>2. old.at = "idle" /\ req' = [req EXCEPT ![r] = q] /\ doc' = doc
      BY <3>1 DEF BeginExport, Begin
    <3>3. q.at = "exporting"
      BY DEF Idle
    <3> HIDE DEF q
    <3> QED BY <2>5, <3>2, <3>3 DEF LinkRequest
  <2>7. CASE Load(r)
    <3> DEFINE q == [old EXCEPT !.at = "loaded", !.seen = doc]
    <3>1. q.at = "loaded" /\ q.actor = old.actor /\ q.folder = old.folder
      BY <2>0 DEF Request
    <3>2. old.at = "linking" /\ req' = [req EXCEPT ![r] = q] /\ doc' = doc
      BY <2>0, <2>7 DEF Load, TypeOK
    <3> HIDE DEF q
    <3> QED BY <2>5, <3>1, <3>2
  <2>8. ASSUME NEW q, old.at = "loaded", req' = [req EXCEPT ![r] = q], doc' = doc,
               q.at \in {"full", "conflict"}, q.actor = old.actor, q.folder = old.folder
        PROVE  [Atomic!Next]_(Atomic!vars)
    <3>1. req'[r] = q
      BY <2>8 DEF TypeOK
    <3>2. AskedBy(r)' = Asked[r] /\ AnswerOf(r)' = "refused"
      BY <2>8, <3>1 DEF Asked, AskedBy, LinkRequest, AnswerOf
    <3>3. Asked' = Asked /\ Answers' = [Answers EXCEPT ![r] = "refused"]
      BY <2>8, <3>2, OneMoves DEF Asked
    <3> QED BY <2>2, <2>3, <2>8, <3>3
  <2>9. CASE RefuseFull(r)
    <3> DEFINE q == [old EXCEPT !.at = "full"]
    <3>1. q.at = "full" /\ q.actor = old.actor /\ q.folder = old.folder
      BY <2>0 DEF Request
    <3>2. old.at = "loaded" /\ req' = [req EXCEPT ![r] = q] /\ doc' = doc
      BY <2>0, <2>9 DEF RefuseFull, TypeOK
    <3> HIDE DEF q
    <3> QED BY <2>8, <3>1, <3>2
  <2>10. CASE Replace(r)
    <3> DEFINE q == [old EXCEPT !.at = "linked"]
    <3>1. q.at = "linked" /\ q.actor = old.actor /\ q.folder = old.folder
      BY <2>0 DEF Request
    <3>2. old.at = "loaded" /\ req' = [req EXCEPT ![r] = q]
      BY <2>0, <2>10 DEF Replace, TypeOK
    <3>3. old.actor \in Actors /\ old.folder \in Folders
      BY <3>2 DEF ArgumentsSet
    <3>4. old.seen = doc
      BY <2>10 DEF Replace, Matches, Ordered, SeenIsPast
    <3>5. doc'.links = Relinked(doc.links, old.actor, old.folder)
      BY <2>10, <3>4 DEF Replace
    <3>6. Held' = [Held EXCEPT ![old.actor] = old.folder]
      BY <3>3, <3>5, Relinking
    <3>7. req'[r] = q
      BY <3>2 DEF TypeOK
    <3> HIDE DEF q
    <3>8. AskedBy(r)' = Asked[r] /\ AnswerOf(r)' = "linked"
      BY <3>1, <3>2, <3>7 DEF Asked, AskedBy, LinkRequest, AnswerOf
    <3>9. Asked' = Asked /\ Answers' = [Answers EXCEPT ![r] = "linked"]
      BY <3>2, <3>8, OneMoves DEF Asked
    <3>10. Asked[r] = [actor |-> old.actor, folder |-> old.folder] /\ Answers[r] = "none"
      BY <3>2 DEF Asked, Answers, AskedBy, LinkRequest, AnswerOf
    <3>11. Asked[r] # None /\ Asked[r].actor = old.actor /\ Asked[r].folder = old.folder
      BY <3>3, <3>10, LinkIsSome DEF Link
    <3>12. Atomic!Acknowledge(r)
      BY <3>6, <3>9, <3>10, <3>11 DEF Atomic!Acknowledge, Atomic!Pending, Held, Asked, Answers
    <3> QED BY <3>12 DEF Atomic!Next
  <2>11. CASE LoseReplace(r)
    <3> DEFINE at == IF AttemptsLeft(r) THEN "linking" ELSE "conflict"
    <3> DEFINE n == old.tried + 1
    <3> DEFINE q == [old EXCEPT !.at = at, !.tried = n]
    <3>1. old.at = "loaded" /\ req' = [req EXCEPT ![r] = q] /\ doc' = doc
      BY <2>0, <2>11 DEF LoseReplace, TypeOK
    <3>2. at \in {"linking", "conflict"}
      OBVIOUS
    <3> HIDE DEF at, n
    <3>3. q.at = at /\ q.actor = old.actor /\ q.folder = old.folder
      BY <2>0 DEF Request
    <3> HIDE DEF q
    <3> QED BY <2>5, <2>8, <3>1, <3>2, <3>3
  <2>12. CASE RefuseUnlinked(r)
    <3> DEFINE q == [old EXCEPT !.at = "unlinked"]
    <3>1. q.at = "unlinked"
      BY <2>0 DEF Request
    <3>2. old.at = "exporting" /\ req' = [req EXCEPT ![r] = q] /\ doc' = doc
      BY <2>0, <2>12 DEF RefuseUnlinked, TypeOK
    <3> HIDE DEF q
    <3> QED BY <2>5, <3>1, <3>2 DEF LinkRequest
  <2>13. CASE ReadFolder(r)
    <3>1. PICK l \in OwnLinks(r) :
             req' = [req EXCEPT ![r].at = "writing", ![r].folder = l.folder]
      BY <2>13 DEF ReadFolder
    <3> DEFINE q == [old EXCEPT !.at = "writing", !.folder = l.folder]
    <3>2. q.at = "writing"
      BY <2>0 DEF Request
    <3>3. old.at = "exporting" /\ req' = [req EXCEPT ![r] = q] /\ doc' = doc
      BY <2>0, <2>13, <3>1 DEF ReadFolder, TypeOK
    <3> HIDE DEF q
    <3> QED BY <2>5, <3>2, <3>3 DEF LinkRequest
  <2>14. CASE WriteFile(r)
    <3> DEFINE q == [old EXCEPT !.at = "exported"]
    <3>1. q.at = "exported"
      BY <2>0 DEF Request
    <3>2. old.at = "writing" /\ req' = [req EXCEPT ![r] = q] /\ doc' = doc
      BY <2>0, <2>14 DEF WriteFile, TypeOK
    <3> HIDE DEF q
    <3> QED BY <2>5, <3>1, <3>2 DEF LinkRequest
  <2> QED
    BY <1>2, <2>4, <2>6, <2>7, <2>9, <2>10, <2>11, <2>12, <2>13, <2>14 DEF Step
<1>3. CASE UNCHANGED vars
  BY <1>3 DEF vars, Atomic!vars, FolderOf, AskedBy, LinkRequest, AnswerOf
<1> QED BY <1>2, <1>3 DEF Next

(* mutate_session makes every link atomic: each one acknowledged took      *)
(* effect once and undid nobody else's, for any number of actors, folders  *)
(* and concurrent requests.                                                *)
THEOREM LinksAtomic == Spec => LinksAreAtomic
<1>1. Init => Atomic!Init
  BY RefinesInit
<1>2. Safe /\ Ordered /\ [Next]_vars => [Atomic!Next]_(Atomic!vars)
  BY RefinesStep
<1> QED BY <1>1, <1>2, AlwaysOrdered, PTL DEF Spec, LinksAreAtomic, Atomic!Spec
=============================================================================
