------------------------ MODULE GovernanceTxnProofs ------------------------
(***************************************************************************)
(* For any number of overlapping transactions: types, a pass that stays    *)
(* the verdict on the newest request and on the document as it is, calls   *)
(* that keep the order of the rows and never wait for each other in a      *)
(* circle, and calls that act as if made one after the other               *)
(* (ReviewedTask).                                                         *)
(*                                                                         *)
(* The pass rests on task_state being a lock in fact: whoever writes its   *)
(* digested fields, the review's status or a request has locked it by then *)
(* (RowsAreHeld), so what a verdict and a preparation found under it is    *)
(* still so when they commit.  The order rests on the holder of a row      *)
(* being past the statement that locked it (HoldersArePast).  The          *)
(* refinement rests on both locks, of the state and of the task: all that  *)
(* a call has found under them is still so when it commits                 *)
(* (SerialInvariant).                                                      *)
(***************************************************************************)
EXTENDS GovernanceTxn, FiniteSetTheorems, SequenceTheorems, TLAPS

Requests == [status : {"pending", "passed", "failed", "void"}, document : Nat, time : Nat]

Typing ==
    /\ validation \in {"pending", "failed", "passed"}
    /\ document \in Nat
    /\ requests \in Seq(Requests)
    /\ lock \in [LockedRows -> Txn \cup {NoTxn}]
    /\ calling \in [Txn -> DOMAIN Script \cup {"none", "over"}]
    /\ position \in [Txn -> Nat]
    /\ target \in [Txn -> Nat]
    /\ \A x \in Txn :
         position[x] > 0 => /\ calling[x] \in DOMAIN Script
                            /\ position[x] <= Len(Script[calling[x]]) + 1

\* The statement n of its call that transaction x has behind it locks row r.
Locked(x, n, r) ==
    /\ n \in Nat /\ 1 <= n /\ n < position[x]
    /\ Script[calling[x]][n] = r

\* Whoever holds a row has executed the statement that locks it.
HoldersArePast ==
    \A r \in LockedRows, x \in Txn : lock[r] = x => \E n \in Nat : Locked(x, n, r)

\* Whoever has executed a statement that locks task_state or the task holds it.
RowsAreHeld ==
    \A x \in Txn, n \in Nat : \A r \in {"state", "task"} : Locked(x, n, r) => lock[r] = x

PendingIsLast == \A i \in PendingAt : i = Len(requests)

\* A preparation that is about to commit supersedes what is pending.
PreparedSupersedes ==
    \A x \in Txn : position[x] = 4 /\ calling[x] = "prepare" =>
                       PendingAt = {} \/ lock["request"] = x

\* A verdict that is about to commit is on the newest request and document.
Judges(x) ==
    /\ target[x] \in DOMAIN requests
    /\ target[x] = Len(requests)
    /\ requests[target[x]].document = document

VerdictIsOnNewest ==
    \A x \in Txn : position[x] = 3 /\ calling[x] = "verdict" => Judges(x)

OverlapInvariant ==
    /\ Typing
    /\ HoldersArePast
    /\ RowsAreHeld
    /\ PendingIsLast
    /\ PreparedSupersedes
    /\ VerdictIsOnNewest
    /\ PassSurvivesOverlap

----------------------------------------------------------------------------
\* The scripts, spelt out.
LEMMA ScriptFacts ==
    /\ DOMAIN Script = {"record", "prepare", "verdict", "abandon", "update",
                        "decide", "invalidate", "cancel", "complete", "bind"}
    /\ Script["record"] = <<"", "", "task">>
    /\ Script["prepare"] = <<"", "state", "request">>
    /\ Script["verdict"] = <<"state", "request">>
    /\ Script["abandon"] = <<"", "state", "request", "task">>
    /\ Script["update"] = <<"state", "task">>
    /\ Script["decide"] = <<"task", "state">>
    /\ Script["invalidate"] = <<"task", "state">>
    /\ Script["cancel"] = <<"task", "request", "state">>
    /\ Script["complete"] = <<"", "state", "task">>
    /\ Script["bind"] = <<"", "task">>
BY DEF Script

LEMMA ScriptNames == "none" \notin DOMAIN Script /\ "over" \notin DOMAIN Script
BY DEF Script

LEMMA ScriptLengths ==
    /\ Len(Script["record"]) = 3 /\ Len(Script["prepare"]) = 3
    /\ Len(Script["verdict"]) = 2 /\ Len(Script["abandon"]) = 4
    /\ Len(Script["update"]) = 2 /\ Len(Script["invalidate"]) = 2
    /\ Len(Script["decide"]) = 2
    /\ Len(Script["cancel"]) = 3 /\ Len(Script["complete"]) = 3
    /\ Len(Script["bind"]) = 2
BY ScriptFacts

LEMMA ScriptStatements ==
    /\ Script["record"][1] = "" /\ Script["record"][2] = "" /\ Script["record"][3] = "task"
    /\ Script["prepare"][1] = "" /\ Script["prepare"][2] = "state" /\ Script["prepare"][3] = "request"
    /\ Script["verdict"][1] = "state" /\ Script["verdict"][2] = "request"
    /\ Script["abandon"][1] = "" /\ Script["abandon"][2] = "state"
    /\ Script["abandon"][3] = "request" /\ Script["abandon"][4] = "task"
    /\ Script["update"][1] = "state" /\ Script["update"][2] = "task"
    /\ Script["decide"][1] = "task" /\ Script["decide"][2] = "state"
    /\ Script["invalidate"][1] = "task" /\ Script["invalidate"][2] = "state"
    /\ Script["cancel"][1] = "task" /\ Script["cancel"][2] = "request" /\ Script["cancel"][3] = "state"
    /\ Script["complete"][1] = "" /\ Script["complete"][2] = "state" /\ Script["complete"][3] = "task"
    /\ Script["bind"][1] = "" /\ Script["bind"][2] = "task"
BY SMT DEF Script

LEMMA ScriptRows ==
    ASSUME NEW k \in DOMAIN Script, NEW n \in 1..Len(Script[k])
    PROVE  Script[k][n] \in LockedRows \cup {""}
<1>1. k \in {"record", "prepare", "verdict", "abandon", "update",
             "decide", "invalidate", "cancel", "complete", "bind"}
  BY ScriptFacts
<1>2. CASE k \in {"record", "prepare", "cancel", "complete"}
  <2>0. Len(Script[k]) = 3
    BY <1>2, ScriptLengths
  <2>1. n = 1 \/ n = 2 \/ n = 3
    BY <2>0
  <2> QED
    BY <1>2, <2>1, ScriptStatements DEF LockedRows
<1>3. CASE k \in {"verdict", "update", "decide", "invalidate", "bind"}
  <2>0. Len(Script[k]) = 2
    BY <1>3, ScriptLengths
  <2>1. n = 1 \/ n = 2
    BY <2>0
  <2> QED
    BY <1>3, <2>1, ScriptStatements DEF LockedRows
<1>4. CASE k = "abandon"
  <2>1. n = 1 \/ n = 2 \/ n = 3 \/ n = 4
    BY <1>4, ScriptLengths
  <2> QED
    BY <1>4, <2>1, ScriptStatements DEF LockedRows
<1> QED
  BY <1>1, <1>2, <1>3, <1>4

LEMMA ScriptLength == ASSUME NEW k \in DOMAIN Script PROVE Len(Script[k]) \in Nat
<1>1. k \in {"record", "prepare", "verdict", "abandon", "update",
             "decide", "invalidate", "cancel", "complete", "bind"}
  BY ScriptFacts
<1> QED
  BY <1>1, ScriptLengths

\* An IF-free reading of a statement that finds what it asks for.
Advances(x) ==
    /\ AtStatement(x) /\ CanLock(x)
    /\ position' = [position EXCEPT ![x] = position[x] + 1]
    /\ lock' = IF Needs(x) = "" THEN lock ELSE [lock EXCEPT ![Needs(x)] = x]
    /\ UNCHANGED <<rowsOfTask, calling, target>>

\* What the end of a transaction does to the places and locks of the others.
OthersStay(x) ==
    \A y \in Txn : position'[y] > 0 =>
        /\ y # x /\ position'[y] = position[y]
        /\ calling'[y] = calling[y] /\ target'[y] = target[y]
        /\ \A r \in LockedRows : lock[r] = y => lock'[r] = y

TypingOfTxns ==
    /\ lock \in [LockedRows -> Txn \cup {NoTxn}]
    /\ calling \in [Txn -> DOMAIN Script \cup {"none", "over"}]
    /\ position \in [Txn -> Nat]
    /\ target \in [Txn -> Nat]
    /\ \A x \in Txn :
         position[x] > 0 => /\ calling[x] \in DOMAIN Script
                            /\ position[x] <= Len(Script[calling[x]]) + 1

TypingOfRows ==
    /\ validation \in {"pending", "failed", "passed"}
    /\ document \in Nat
    /\ requests \in Seq(Requests)

----------------------------------------------------------------------------
\* A transaction that ends releases its own locks and leaves the others theirs.
LEMMA FinishKeepsLocks ==
    ASSUME OverlapInvariant, NEW x \in Txn, Finish(x)
    PROVE  TypingOfTxns' /\ HoldersArePast' /\ RowsAreHeld' /\ OthersStay(x)
<1> USE DEF OverlapInvariant, Typing, LockedRows, Released, Finish
<1>1. TypingOfTxns'
  BY DEF TypingOfTxns, NoTxn
<1>2. OthersStay(x)
  BY DEF OthersStay, Txn, NoTxn
<1>3. ASSUME NEW y \in Txn, NEW n \in Nat, NEW r \in LockedRows, y # x
      PROVE  Locked(y, n, r)' <=> Locked(y, n, r)
  BY <1>3 DEF Locked
<1>4. ASSUME NEW n \in Nat, NEW r \in LockedRows PROVE ~Locked(x, n, r)'
  BY DEF Locked
<1>5. HoldersArePast'
  <2> SUFFICES ASSUME NEW r \in LockedRows, NEW y \in Txn, lock'[r] = y
               PROVE  \E n \in Nat : Locked(y, n, r)'
    BY DEF HoldersArePast
  <2>1. y # x /\ lock[r] = y
    BY DEF Txn, NoTxn
  <2>2. PICK n \in Nat : Locked(y, n, r)
    BY <2>1 DEF HoldersArePast
  <2> QED
    BY <1>3, <2>1, <2>2
<1>6. RowsAreHeld'
  <2> SUFFICES ASSUME NEW y \in Txn, NEW n \in Nat, NEW r \in {"state", "task"}, Locked(y, n, r)'
               PROVE  lock'[r] = y
    BY DEF RowsAreHeld
  <2>1. y # x
    BY <1>4
  <2>2. lock[r] = y
    BY <1>3, <2>1 DEF RowsAreHeld
  <2> QED
    BY <2>1, <2>2
<1> QED
  BY <1>1, <1>2, <1>5, <1>6

\* A transaction that ends without a write of the review keeps the invariant.
LEMMA FinishKeeps ==
    ASSUME OverlapInvariant, NEW x \in Txn, Finish(x),
           UNCHANGED <<validation, document, requests>>
    PROVE  OverlapInvariant'
<1>1. /\ TypingOfTxns' /\ HoldersArePast' /\ RowsAreHeld' /\ OthersStay(x)
      /\ UNCHANGED <<validation, document, requests>>
  BY FinishKeepsLocks
<1>2. Typing'
  BY <1>1 DEF OverlapInvariant, Typing, TypingOfTxns
<1>3. PendingIsLast' /\ PassSurvivesOverlap'
  BY <1>1 DEF OverlapInvariant, PendingIsLast, PendingAt, PassSurvivesOverlap, Current, Newest
<1>4. PreparedSupersedes'
  <2> SUFFICES ASSUME NEW y \in Txn, position'[y] = 4, calling'[y] = "prepare"
               PROVE  PendingAt' = {} \/ lock'["request"] = y
    BY DEF PreparedSupersedes
  <2>1. /\ position[y] = 4 /\ calling[y] = "prepare"
        /\ lock["request"] = y => lock'["request"] = y
    BY <1>1 DEF OthersStay, LockedRows
  <2> QED
    BY <1>1, <2>1 DEF OverlapInvariant, PreparedSupersedes, PendingAt
<1>5. VerdictIsOnNewest'
  BY <1>1 DEF OverlapInvariant, VerdictIsOnNewest, Judges, OthersStay
<1> QED
  BY <1>1, <1>2, <1>3, <1>4, <1>5 DEF OverlapInvariant

LEMMA StartKeeps ==
    ASSUME OverlapInvariant, NEW x \in Txn, NEW k \in MayCall, StartTxn(x, k)
    PROVE  OverlapInvariant'
<1>0. k \in DOMAIN Script /\ calling[x] = "none"
  BY GovernanceAssumption DEF StartTxn
<1>1. position[x] = 0
  <2>1. position[x] \in Nat /\ ~(position[x] > 0)
    BY <1>0, ScriptNames DEF OverlapInvariant, Typing
  <2> QED
    BY <2>1
<1>2. UNCHANGED rowsOfTask /\ UNCHANGED lock
  BY DEF StartTxn
<1>3. Typing'
  <2>1. Len(Script[k]) \in Nat
    BY <1>0, ScriptLength
  <2>2. target' \in [Txn -> Nat]
    BY LenProperties DEF OverlapInvariant, Typing, StartTxn
  <2> QED
    BY <1>0, <1>2, <2>1, <2>2 DEF OverlapInvariant, Typing, StartTxn, rowsOfTask
<1>4. ASSUME NEW y \in Txn, NEW n \in Nat, NEW r
      PROVE  Locked(y, n, r)' <=> Locked(y, n, r)
  BY <1>1 DEF Locked, StartTxn, OverlapInvariant, Typing
<1>5. HoldersArePast' /\ RowsAreHeld'
  BY <1>2, <1>4 DEF HoldersArePast, RowsAreHeld, OverlapInvariant
<1>6. PendingIsLast' /\ PassSurvivesOverlap'
  BY <1>2 DEF OverlapInvariant, PendingIsLast, PendingAt, PassSurvivesOverlap, Current, Newest, rowsOfTask
<1>7. PreparedSupersedes' /\ VerdictIsOnNewest'
  BY <1>1, <1>2 DEF OverlapInvariant, Typing, PreparedSupersedes, VerdictIsOnNewest, Judges, PendingAt,
     StartTxn, rowsOfTask
<1> QED
  BY <1>3, <1>5, <1>6, <1>7 DEF OverlapInvariant

\* A statement that finds what it asks for, the last of a verdict a pending
\* request of the present document, keeps the invariant.
LEMMA AdvanceKeeps ==
    ASSUME OverlapInvariant, NEW x \in Txn, Advances(x),
           calling[x] = "verdict" /\ position[x] = 2 => RequestIsPending(x) /\ DocumentReviewed(x)
    PROVE  OverlapInvariant'
<1> DEFINE k == calling[x]
           row == Script[k][position[x]]
<1>1. /\ k \in DOMAIN Script
      /\ position[x] \in 1..Len(Script[k])
      /\ Len(Script[k]) \in Nat
  <2>1. position[x] \in Nat /\ position[x] > 0 /\ position[x] <= Len(Script[k])
    BY DEF OverlapInvariant, Typing, Advances, AtStatement, Live, ScriptOf
  <2>2. k \in DOMAIN Script
    BY <2>1 DEF OverlapInvariant, Typing
  <2> QED
    BY <2>1, <2>2, ScriptLength
<1>2. row \in LockedRows \cup {""}
  BY <1>1, ScriptRows
<1>3. Needs(x) \in LockedRows \cup {""} /\ (Needs(x) # "" => Needs(x) = row)
  BY <1>2 DEF Needs, ScriptOf, LockedRows
<1>p. /\ \A y \in Txn : y # x => position'[y] = position[y]
      /\ position'[x] = position[x] + 1
  BY DEF OverlapInvariant, Typing, Advances
<1>4. \A r \in LockedRows, y \in Txn : lock[r] = y => lock'[r] = y
  <2>1. CASE Needs(x) = ""
    BY <2>1 DEF Advances
  <2>2. CASE Needs(x) # ""
    <3>1. lock' = [lock EXCEPT ![Needs(x)] = x] /\ lock[Needs(x)] \in {NoTxn, x}
      BY <2>2 DEF Advances, CanLock
    <3>2. lock \in [LockedRows -> Txn \cup {NoTxn}]
      BY DEF OverlapInvariant, Typing
    <3> QED
      BY <3>1, <3>2 DEF Txn, NoTxn
  <2> QED
    BY <2>1, <2>2
<1>5. \A r \in LockedRows, y \in Txn : lock'[r] = y => lock[r] = y \/ (r = row /\ y = x)
  <2>1. CASE Needs(x) = ""
    BY <2>1 DEF Advances
  <2>2. CASE Needs(x) # ""
    <3>1. row \in LockedRows /\ lock' = [lock EXCEPT ![row] = x]
      BY <1>3, <2>2 DEF Advances
    <3>2. lock \in [LockedRows -> Txn \cup {NoTxn}]
      BY DEF OverlapInvariant, Typing
    <3> QED
      BY <3>1, <3>2
  <2> QED
    BY <2>1, <2>2
<1>6. UNCHANGED <<rowsOfTask, calling, target>>
  BY DEF Advances
<1>7. ASSUME NEW y \in Txn, NEW n \in Nat, NEW r \in LockedRows
      PROVE  Locked(y, n, r)' <=> \/ Locked(y, n, r)
                                  \/ y = x /\ n = position[x] /\ r = row
  <2>1. CASE y # x
    BY <1>p, <1>6, <2>1 DEF Locked
  <2>2. CASE y = x
    <3>1. n < position'[x] <=> n < position[x] \/ n = position[x]
      BY <1>1, <1>p
    <3>2. calling'[x] = calling[x]
      BY <1>6
    <3> QED
      BY <1>1, <2>2, <3>1, <3>2 DEF Locked
  <2> QED
    BY <2>1, <2>2
<1>8. Typing'
  <2>1. lock' \in [LockedRows -> Txn \cup {NoTxn}]
    BY <1>3 DEF OverlapInvariant, Typing, Advances
  <2>2. /\ position' \in [Txn -> Nat]
        /\ \A y \in Txn : position'[y] > 0 => /\ calling'[y] \in DOMAIN Script
                                               /\ position'[y] <= Len(Script[calling'[y]]) + 1
    <3>1. position' \in [Txn -> Nat]
      <4>1. position \in [Txn -> Nat] /\ position[x] + 1 \in Nat
        BY <1>1 DEF OverlapInvariant, Typing
      <4> QED
        BY <4>1 DEF Advances
    <3>2. position'[x] <= Len(Script[calling[x]]) + 1
      BY <1>1, <1>p
    <3> QED
      BY <1>1, <1>p, <1>6, <3>1, <3>2 DEF OverlapInvariant, Typing
  <2> QED
    BY <1>6, <2>1, <2>2 DEF OverlapInvariant, Typing, rowsOfTask
<1>9. HoldersArePast'
  <2> SUFFICES ASSUME NEW r \in LockedRows, NEW y \in Txn, lock'[r] = y
               PROVE  \E n \in Nat : Locked(y, n, r)'
    BY DEF HoldersArePast
  <2>1. CASE lock[r] = y
    BY <1>7, <2>1 DEF OverlapInvariant, HoldersArePast
  <2>2. CASE r = row /\ y = x
    BY <1>1, <1>7, <2>2
  <2> QED
    BY <1>5, <2>1, <2>2
<1>10. RowsAreHeld'
  <2> SUFFICES ASSUME NEW y \in Txn, NEW n \in Nat, NEW r \in {"state", "task"}, Locked(y, n, r)'
               PROVE  lock'[r] = y
    BY DEF RowsAreHeld
  <2>1. CASE Locked(y, n, r)
    BY <1>4, <2>1 DEF OverlapInvariant, RowsAreHeld, LockedRows
  <2>2. CASE y = x /\ row = r
    <3>1. Needs(x) = r
      BY <2>2 DEF Needs, ScriptOf
    <3> QED
      BY <2>2, <3>1 DEF OverlapInvariant, Typing, Advances, LockedRows
  <2> QED
    BY <1>7, <2>1, <2>2 DEF LockedRows
<1>11. PendingIsLast' /\ PassSurvivesOverlap'
  BY <1>6 DEF OverlapInvariant, PendingIsLast, PendingAt, PassSurvivesOverlap, Current, Newest, rowsOfTask
<1>12. PreparedSupersedes'
  <2> SUFFICES ASSUME NEW y \in Txn, position'[y] = 4, calling'[y] = "prepare"
               PROVE  PendingAt' = {} \/ lock'["request"] = y
    BY DEF PreparedSupersedes
  <2>1. PendingAt' = PendingAt
    BY <1>6 DEF PendingAt, rowsOfTask
  <2>2. CASE y # x
    <3>1. position[y] = 4 /\ calling[y] = "prepare"
      BY <1>p, <1>6, <2>2
    <3> QED
      BY <1>4, <2>1, <3>1 DEF OverlapInvariant, PreparedSupersedes, LockedRows
  <2>3. CASE y = x
    <3>1. position[x] = 3 /\ calling[x] = "prepare"
      BY <1>1, <1>p, <1>6, <2>3
    <3>2. row = "request"
      BY <3>1, ScriptStatements
    <3>3. CASE PendingAt = {}
      BY <2>1, <3>3
    <3>4. CASE PendingAt # {}
      <4>1. Needs(x) = "request"
        BY <3>2, <3>4 DEF Needs, ScriptOf
      <4> QED
        BY <2>3, <4>1 DEF OverlapInvariant, Typing, Advances, LockedRows
    <3> QED
      BY <3>3, <3>4
  <2> QED
    BY <2>2, <2>3
<1>13. VerdictIsOnNewest'
  <2> SUFFICES ASSUME NEW y \in Txn, position'[y] = 3, calling'[y] = "verdict"
               PROVE  Judges(y)'
    BY DEF VerdictIsOnNewest
  <2>1. Judges(y)
    <3>1. CASE y # x
      BY <1>p, <1>6, <3>1 DEF OverlapInvariant, VerdictIsOnNewest
    <3>2. CASE y = x
      <4>1. position[x] = 2 /\ calling[x] = "verdict"
        BY <1>1, <1>p, <1>6, <3>2
      <4> QED
        BY <3>2, <4>1 DEF RequestIsPending, DocumentReviewed, Judges, OverlapInvariant,
           PendingIsLast, PendingAt
    <3> QED
      BY <3>1, <3>2
  <2> QED
    BY <1>6, <2>1 DEF Judges, rowsOfTask
<1> QED
  BY <1>8, <1>9, <1>10, <1>11, <1>12, <1>13 DEF OverlapInvariant

----------------------------------------------------------------------------
\* Who has locked task_state writes alone: no verdict and no preparation of
\* another is about to commit.
LEMMA WriteKeeps ==
    ASSUME OverlapInvariant, NEW x \in Txn, Finish(x), lock["state"] = x,
           TypingOfRows', PendingIsLast', PassSurvivesOverlap'
    PROVE  OverlapInvariant'
<1>1. TypingOfTxns' /\ HoldersArePast' /\ RowsAreHeld' /\ OthersStay(x)
  BY FinishKeepsLocks
<1>2. Typing'
  BY <1>1 DEF Typing, TypingOfTxns, TypingOfRows
<1>3. ASSUME NEW y \in Txn, position'[y] = 4, calling'[y] = "prepare"
      PROVE  FALSE
  <2>1. y # x /\ position[y] = 4 /\ calling[y] = "prepare"
    BY <1>1, <1>3 DEF OthersStay
  <2>2. Locked(y, 2, "state")
    <3>1. Script[calling[y]][2] = "state"
      BY <2>1, ScriptStatements
    <3> QED
      BY <2>1, <3>1 DEF Locked
  <2> QED
    BY <2>1, <2>2 DEF OverlapInvariant, RowsAreHeld
<1>4. ASSUME NEW y \in Txn, position'[y] = 3, calling'[y] = "verdict"
      PROVE  FALSE
  <2>1. y # x /\ position[y] = 3 /\ calling[y] = "verdict"
    BY <1>1, <1>4 DEF OthersStay
  <2>2. Locked(y, 1, "state")
    <3>1. Script[calling[y]][1] = "state"
      BY <2>1, ScriptStatements
    <3> QED
      BY <2>1, <3>1 DEF Locked
  <2> QED
    BY <2>1, <2>2 DEF OverlapInvariant, RowsAreHeld
<1>5. PreparedSupersedes' /\ VerdictIsOnNewest'
  BY <1>3, <1>4 DEF PreparedSupersedes, VerdictIsOnNewest
<1> QED
  BY <1>1, <1>2, <1>5 DEF OverlapInvariant

\* A call that locks task_state holds it when it commits.
StateWriters == {"prepare", "verdict", "abandon", "update", "decide", "invalidate", "cancel"}

LEMMA CommitHolds ==
    ASSUME OverlapInvariant, NEW x \in Txn, NEW k \in StateWriters, Commits(x, k)
    PROVE  lock["state"] = x
<1>1. k \in DOMAIN Script
  BY ScriptFacts DEF StateWriters
<1>2. PICK n \in {1, 2, 3} : n <= Len(Script[k]) /\ Script[k][n] = "state"
  <2>1. CASE k = "verdict" \/ k = "update"
    <3>1. Len(Script[k]) = 2
      BY <2>1, ScriptLengths
    <3>2. Script[k][1] = "state"
      BY <2>1, ScriptStatements
    <3> QED
      BY <3>1, <3>2
  <2>2. CASE k \in {"prepare", "abandon", "decide", "invalidate"}
    <3>1. Len(Script[k]) \in {2, 3, 4}
      BY <2>2, ScriptLengths
    <3>2. Script[k][2] = "state"
      BY <2>2, ScriptStatements
    <3> QED
      BY <3>1, <3>2
  <2>3. CASE k = "cancel"
    <3>1. Len(Script[k]) >= 3
      BY <2>3, ScriptLengths
    <3>2. Script[k][3] = "state"
      BY <2>3, ScriptStatements
    <3> QED
      BY <3>1, <3>2
  <2> QED
    BY <2>1, <2>2, <2>3 DEF StateWriters
<1>3. calling[x] = k /\ position[x] = Len(Script[k]) + 1 /\ Len(Script[k]) \in Nat
  BY <1>1, ScriptLength DEF Commits, ScriptOf
<1>4. Locked(x, n, "state")
  BY <1>2, <1>3 DEF Locked
<1> QED
  BY <1>4 DEF OverlapInvariant, RowsAreHeld

\* Superseding keeps what was decided, and leaves nothing pending under the
\* lock of the request.
LEMMA SupersededRows ==
    ASSUME OverlapInvariant, NEW x \in Txn
    PROVE  /\ SupersededBy(x) \in Seq(Requests)
           /\ Len(SupersededBy(x)) = Len(requests)
           /\ \A i \in DOMAIN requests :
                /\ i \notin PendingAt => SupersededBy(x)[i] = requests[i]
                /\ SupersededBy(x)[i].status = "pending" => i \in PendingAt /\ lock["request"] # x
<1>1. requests \in Seq(Requests)
  BY DEF OverlapInvariant, Typing
<1>2. CASE lock["request"] = x
  <2> DEFINE S == [i \in DOMAIN requests |->
                     IF i \in PendingAt THEN [requests[i] EXCEPT !.status = "void"] ELSE requests[i]]
  <2>1. SupersededBy(x) = S
    BY <1>2 DEF SupersededBy
  <2>2. \A i \in DOMAIN requests : requests[i] \in Requests
    BY <1>1, ElementOfSeq
  <2>3. \A i \in DOMAIN requests : S[i] \in Requests /\ S[i].status # "pending"
    BY <2>2 DEF Requests, PendingAt
  <2>4. DOMAIN requests = 1..Len(requests) /\ Len(requests) \in Nat
    BY <1>1, LenProperties
  <2>5. S \in [1..Len(requests) -> Requests]
    BY <2>3, <2>4
  <2>6. S \in Seq(Requests) /\ Len(S) = Len(requests)
    <3>1. S \in Seq(Requests)
      BY <2>4, <2>5, SeqDef
    <3> QED
      BY <2>4, <2>5, <3>1, LenProperties
  <2> QED
    BY <2>1, <2>3, <2>6
<1>3. CASE lock["request"] # x
  BY <1>1, <1>3 DEF SupersededBy, PendingAt
<1> QED
  BY <1>2, <1>3

LEMMA PrepareCommitKeeps ==
    ASSUME OverlapInvariant, NEW x \in Txn, Commits(x, "prepare"),
           validation' = "pending", document' = document,
           requests' = Append(SupersededBy(x), [status |-> "pending", document |-> document, time |-> 0])
    PROVE  OverlapInvariant'
<1> DEFINE S == SupersededBy(x)
           new == [status |-> "pending", document |-> document, time |-> 0]
<1>1. position[x] = 4 /\ calling[x] = "prepare" /\ Finish(x)
  BY ScriptLengths DEF Commits, ScriptOf
<1>2. PendingAt = {} \/ lock["request"] = x
  BY <1>1 DEF OverlapInvariant, PreparedSupersedes
<1>3. /\ S \in Seq(Requests) /\ Len(S) = Len(requests)
      /\ \A i \in DOMAIN requests : S[i].status # "pending"
  BY <1>2, SupersededRows
<1>4. new \in Requests
  BY DEF Requests, OverlapInvariant, Typing
<1>5. /\ requests' \in Seq(Requests)
      /\ Len(requests') = Len(S) + 1
      /\ \A i \in 1..Len(S) : requests'[i] = S[i]
  BY <1>3, <1>4, AppendProperties
<1>6. DOMAIN requests = 1..Len(S) /\ DOMAIN requests' = 1..Len(requests') /\ Len(S) \in Nat
  BY <1>3, <1>5, LenProperties DEF OverlapInvariant, Typing
<1>7. PendingIsLast'
  BY <1>3, <1>5, <1>6 DEF PendingIsLast, PendingAt
<1>8. TypingOfRows'
  BY <1>5 DEF TypingOfRows, OverlapInvariant, Typing
<1>9. lock["state"] = x
  BY CommitHolds DEF StateWriters
<1> QED
  BY <1>1, <1>7, <1>8, <1>9, WriteKeeps DEF PassSurvivesOverlap

LEMMA VerdictCommitKeeps ==
    ASSUME OverlapInvariant, NEW x \in Txn, Commits(x, "verdict"),
           NEW outcome \in {"passed", "failed"}, validation' = outcome, document' = document,
           requests' = [requests EXCEPT ![target[x]].status = outcome, ![target[x]].time = x]
    PROVE  OverlapInvariant'
<1>1. position[x] = 3 /\ calling[x] = "verdict" /\ Finish(x)
  BY ScriptLengths DEF Commits, ScriptOf
<1>2. Judges(x)
  BY <1>1 DEF OverlapInvariant, VerdictIsOnNewest
<1> DEFINE t == target[x]
           judged == [requests[t] EXCEPT !.status = outcome, !.time = x]
<1>3. /\ requests \in Seq(Requests) /\ t \in DOMAIN requests /\ t = Len(requests)
      /\ requests[t].document = document
  BY <1>2 DEF Judges, OverlapInvariant, Typing
<1>4. judged \in Requests /\ judged.status = outcome /\ judged.document = document
  <2>1. requests[t] \in Requests
    BY <1>3, ElementOfSeq
  <2>2. x \in Nat
    BY DEF Txn
  <2> QED
    BY <1>3, <2>1, <2>2 DEF Requests
<1>5. requests' = [requests EXCEPT ![t] = judged]
  <2>1. DOMAIN requests = 1..Len(requests)
    BY <1>3, LenProperties
  <2>2. requests[t] \in Requests
    BY <1>3, ElementOfSeq
  <2> QED
    BY <1>3, <2>1, <2>2 DEF Requests
<1>6. /\ requests' \in Seq(Requests) /\ Len(requests') = Len(requests)
      /\ DOMAIN requests' = DOMAIN requests
      /\ requests'[t] = judged
      /\ \A i \in DOMAIN requests : i # t => requests'[i] = requests[i]
  <2>1. DOMAIN requests = 1..Len(requests)
    BY <1>3, LenProperties
  <2>2. t \in 1..Len(requests)
    BY <1>3, <2>1
  <2>3. \A e \in Requests :
          /\ [requests EXCEPT ![t] = e] \in Seq(Requests)
          /\ Len([requests EXCEPT ![t] = e]) = Len(requests)
          /\ [requests EXCEPT ![t] = e][t] = e
          /\ \A i \in DOMAIN requests : i # t => [requests EXCEPT ![t] = e][i] = requests[i]
    <3> SUFFICES ASSUME NEW e \in Requests
                 PROVE  /\ [requests EXCEPT ![t] = e] \in Seq(Requests)
                        /\ Len([requests EXCEPT ![t] = e]) = Len(requests)
                        /\ [requests EXCEPT ![t] = e][t] = e
                        /\ \A i \in DOMAIN requests :
                             i # t => [requests EXCEPT ![t] = e][i] = requests[i]
      OBVIOUS
    <3> HIDE DEF t
    <3> QED
      BY <1>3, <2>1, <2>2, ExceptSeq
  <2>4. DOMAIN requests' = DOMAIN requests
    BY <1>5
  <2>5. judged \in Requests
    BY <1>4
  <2> HIDE DEF judged
  <2>6. /\ requests' \in Seq(Requests) /\ Len(requests') = Len(requests)
        /\ requests'[t] = judged
    <3>1. /\ [requests EXCEPT ![t] = judged] \in Seq(Requests)
          /\ Len([requests EXCEPT ![t] = judged]) = Len(requests)
          /\ [requests EXCEPT ![t] = judged][t] = judged
      BY <2>3, <2>5
    <3> QED
      BY ONLY <1>5, <3>1
  <2>7. \A i \in DOMAIN requests : i # t => requests'[i] = requests[i]
    BY <1>5
  <2> QED
    BY <2>4, <2>6, <2>7
<1>7. PendingIsLast'
  BY <1>3, <1>4, <1>6 DEF PendingIsLast, PendingAt, OverlapInvariant
<1>8. PassSurvivesOverlap'
  <2>1. Len(requests') = t /\ requests'[t] = judged /\ requests' # <<>>
    BY <1>3, <1>6
  <2> QED
    BY <1>4, <2>1 DEF PassSurvivesOverlap, Current, Newest
<1>9. TypingOfRows'
  BY <1>6 DEF TypingOfRows, OverlapInvariant, Typing
<1>10. lock["state"] = x
  BY CommitHolds DEF StateWriters
<1> QED
  BY <1>1, <1>7, <1>8, <1>9, <1>10, WriteKeeps

LEMMA AbandonCommitKeeps ==
    ASSUME OverlapInvariant, NEW x \in Txn, Commits(x, "abandon"),
           requests' = SupersededBy(x), UNCHANGED <<validation, document>>
    PROVE  OverlapInvariant'
<1>1. /\ requests' \in Seq(Requests) /\ Len(requests') = Len(requests)
      /\ \A i \in DOMAIN requests :
           /\ i \notin PendingAt => requests'[i] = requests[i]
           /\ requests'[i].status = "pending" => i \in PendingAt
  BY SupersededRows
<1>2. /\ DOMAIN requests' = DOMAIN requests /\ DOMAIN requests = 1..Len(requests)
      /\ Len(requests) \in Nat
  BY <1>1, LenProperties DEF OverlapInvariant, Typing
<1>3. PendingIsLast'
  BY <1>1, <1>2 DEF PendingIsLast, PendingAt, OverlapInvariant
<1>4. PassSurvivesOverlap'
  <2> SUFFICES ASSUME validation' = "passed" PROVE Current'
    BY DEF PassSurvivesOverlap
  <2>1. Current
    BY DEF OverlapInvariant, PassSurvivesOverlap
  <2>2. Len(requests) \in DOMAIN requests
    BY <1>1, <1>2, <2>1, EmptySeq DEF Current, OverlapInvariant, Typing
  <2>3. requests'[Len(requests)] = requests[Len(requests)] /\ requests' # <<>>
    BY <1>1, <1>2, <2>1, <2>2 DEF Current, Newest, PendingAt
  <2> QED
    BY <1>1, <2>1, <2>3 DEF Current, Newest
<1>5. TypingOfRows'
  BY <1>1 DEF TypingOfRows, OverlapInvariant, Typing
<1>6. lock["state"] = x /\ Finish(x)
  BY CommitHolds DEF StateWriters, Commits
<1> QED
  BY <1>3, <1>4, <1>5, <1>6, WriteKeeps

LEMMA CancelCommitKeeps ==
    ASSUME OverlapInvariant, NEW x \in Txn, Commits(x, "cancel"),
           requests' = SupersededBy(x), validation' = "pending", document' = document
    PROVE  OverlapInvariant'
<1>1. /\ requests' \in Seq(Requests) /\ Len(requests') = Len(requests)
      /\ \A i \in DOMAIN requests : requests'[i].status = "pending" => i \in PendingAt
  BY SupersededRows
<1>2. DOMAIN requests' = DOMAIN requests
  BY <1>1, LenProperties DEF OverlapInvariant, Typing
<1>3. PendingIsLast'
  BY <1>1, <1>2 DEF PendingIsLast, PendingAt, OverlapInvariant
<1>4. TypingOfRows' /\ PassSurvivesOverlap'
  BY <1>1 DEF TypingOfRows, PassSurvivesOverlap, OverlapInvariant, Typing
<1>5. lock["state"] = x /\ Finish(x)
  BY CommitHolds DEF StateWriters, Commits
<1> QED
  BY <1>3, <1>4, <1>5, WriteKeeps

\* A checkpoint or an invalidation, which leave the requests alone.
LEMMA ReopeningKeeps ==
    ASSUME OverlapInvariant, NEW x \in Txn, NEW k \in {"update", "decide", "invalidate"}, Commits(x, k),
           requests' = requests, validation' = "pending", document' \in {document, document + 1}
    PROVE  OverlapInvariant'
<1>1. PendingIsLast'
  BY DEF PendingIsLast, PendingAt, OverlapInvariant
<1>2. TypingOfRows' /\ PassSurvivesOverlap'
  BY DEF TypingOfRows, PassSurvivesOverlap, OverlapInvariant, Typing
<1>3. lock["state"] = x /\ Finish(x)
  BY CommitHolds DEF StateWriters, Commits
<1> QED
  BY <1>1, <1>2, <1>3, WriteKeeps

----------------------------------------------------------------------------
LEMMA OverlapInit == GovernanceInit => OverlapInvariant
<1> SUFFICES ASSUME GovernanceInit PROVE OverlapInvariant
  OBVIOUS
<1>1. requests \in Seq(Requests) /\ Len(requests) \in {0, 1} /\ DOMAIN requests = 1..Len(requests)
  <2>1. CASE requests = <<>>
    BY <2>1
  <2>2. CASE requests = <<[status |-> "pending", document |-> 0, time |-> 0]>>
    <3>1. [status |-> "pending", document |-> 0, time |-> 0] \in Requests
      BY DEF Requests
    <3> QED
      BY <2>2, <3>1
  <2> QED
    BY <2>1, <2>2 DEF GovernanceInit
<1>2. Typing
  BY <1>1 DEF GovernanceInit, Typing, NoTxn
<1>3. \A x \in Txn : position[x] = 0 /\ x # NoTxn
  BY DEF GovernanceInit, Txn, NoTxn
<1>4. HoldersArePast /\ RowsAreHeld
  BY <1>3 DEF HoldersArePast, RowsAreHeld, Locked, GovernanceInit
<1>5. PendingIsLast
  BY <1>1 DEF PendingIsLast, PendingAt
<1>6. PreparedSupersedes /\ VerdictIsOnNewest /\ PassSurvivesOverlap
  BY <1>3 DEF PreparedSupersedes, VerdictIsOnNewest, PassSurvivesOverlap, GovernanceInit
<1> QED
  BY <1>2, <1>4, <1>5, <1>6 DEF OverlapInvariant

LEMMA OverlapNext ==
    ASSUME OverlapInvariant, [GovernanceNext]_governanceVars
    PROVE  OverlapInvariant'
<1>1. CASE UNCHANGED governanceVars
  <2>1. UNCHANGED <<validation, document, requests, lock, calling, position, target>>
    BY <1>1 DEF governanceVars, rowsOfTask, txnVars
  <2>2. Typing'
    BY <2>1 DEF OverlapInvariant, Typing
  <2>3. HoldersArePast' /\ RowsAreHeld'
    BY <2>1, SMTT(30) DEF OverlapInvariant, HoldersArePast, RowsAreHeld, Locked
  <2>4. PendingIsLast' /\ PreparedSupersedes' /\ VerdictIsOnNewest'
    BY <2>1 DEF OverlapInvariant, PendingIsLast, PendingAt, PreparedSupersedes, VerdictIsOnNewest, Judges
  <2>5. PassSurvivesOverlap'
    BY <2>1 DEF OverlapInvariant, PassSurvivesOverlap, Current, Newest
  <2> QED
    BY <2>2, <2>3, <2>4, <2>5 DEF OverlapInvariant
<1> SUFFICES ASSUME NEW x \in Txn,
                    \/ \E k \in MayCall : StartTxn(x, k)
                    \/ RecordEvidence(x) \/ PrepareReview(x) \/ RecordVerdict(x) \/ AbandonReview(x)
                    \/ UpdateState(x) \/ Decide(x) \/ InvalidateReview(x) \/ CancelTask(x)
                    \/ CompleteTask(x) \/ BindTask(x) \/ DeadlockDetected(x) \/ Abort(x)
             PROVE  OverlapInvariant'
  BY <1>1 DEF GovernanceNext
<1>2. CASE \E k \in MayCall : StartTxn(x, k)
  BY <1>2, StartKeeps
<1>3. CASE Abort(x)
  BY <1>3, FinishKeeps DEF Abort, rowsOfTask
<1>4. CASE DeadlockDetected(x)
  BY <1>4, FinishKeeps DEF DeadlockDetected, Abort, rowsOfTask
<1>5. CASE Advances(x) /\ calling[x] # "verdict"
  BY <1>5, AdvanceKeeps
<1>6. CASE RecordEvidence(x)
  <2>1. \/ Advances(x) /\ calling[x] = "record"
        \/ Abort(x)
        \/ Finish(x) /\ UNCHANGED <<validation, document, requests>>
    BY <1>6 DEF RecordEvidence, Executes, Advances, Commits
  <2> QED
    BY <1>3, <1>5, <2>1, FinishKeeps
<1>7. CASE PrepareReview(x)
  <2>1. \/ Advances(x) /\ calling[x] = "prepare"
        \/ Abort(x)
        \/ /\ Commits(x, "prepare") /\ validation' = "pending" /\ document' = document
           /\ requests' = Append(SupersededBy(x), [status |-> "pending", document |-> document, time |-> 0])
    BY <1>7 DEF PrepareReview, Executes, Advances
  <2> QED
    BY <1>3, <1>5, <2>1, PrepareCommitKeeps
<1>8. CASE RecordVerdict(x)
  <2>1. CASE \/ Executes(x, "verdict", 1, TRUE)
             \/ Executes(x, "verdict", 2, RequestIsPending(x) /\ boundTo /\ DocumentReviewed(x))
    <3>1. CASE Executes(x, "verdict", 1, TRUE)
      <4>1. Advances(x)
        BY <3>1 DEF Executes, Advances
      <4>2. position[x] = 1
        BY <3>1 DEF Executes
      <4> QED
        BY <4>1, <4>2, AdvanceKeeps
    <3>2. CASE Executes(x, "verdict", 2, RequestIsPending(x) /\ boundTo /\ DocumentReviewed(x))
      <4>1. Abort(x) \/ (Advances(x) /\ RequestIsPending(x) /\ DocumentReviewed(x))
        BY <3>2 DEF Executes, Advances
      <4> QED
        BY <1>3, <4>1, AdvanceKeeps
    <3> QED
      BY <2>1, <3>1, <3>2
  <2>2. CASE /\ Commits(x, "verdict")
             /\ \E outcome \in {"passed", "failed"} :
                  /\ validation' = outcome
                  /\ requests' = [requests EXCEPT ![target[x]].status = outcome, ![target[x]].time = x]
             /\ document' = document
    BY <2>2, VerdictCommitKeeps
  <2> QED
    BY <1>8, <2>1, <2>2 DEF RecordVerdict
<1>9. CASE AbandonReview(x)
  <2>1. \/ Advances(x) /\ calling[x] = "abandon"
        \/ Abort(x)
        \/ Commits(x, "abandon") /\ requests' = SupersededBy(x) /\ UNCHANGED <<validation, document>>
    BY <1>9 DEF AbandonReview, Executes, Advances
  <2> QED
    BY <1>3, <1>5, <2>1, AbandonCommitKeeps
<1>10. CASE UpdateState(x)
  <2>1. \/ Advances(x) /\ calling[x] = "update"
        \/ Abort(x)
        \/ /\ Commits(x, "update") /\ validation' = "pending"
           /\ document' = document + 1 /\ requests' = requests
    BY <1>10 DEF UpdateState, Executes, Advances
  <2> QED
    BY <1>3, <1>5, <2>1, ReopeningKeeps
<1>11. CASE InvalidateReview(x)
  <2>1. \/ Advances(x) /\ calling[x] = "invalidate"
        \/ Abort(x)
        \/ /\ Commits(x, "invalidate") /\ validation' = "pending"
           /\ document' = document /\ requests' = requests
    BY <1>11 DEF InvalidateReview, Executes, Advances
  <2> QED
    BY <1>3, <1>5, <2>1, ReopeningKeeps
<1>12. CASE CancelTask(x)
  <2>1. \/ Advances(x) /\ calling[x] = "cancel"
        \/ Abort(x)
        \/ /\ Commits(x, "cancel") /\ validation' = "pending"
           /\ document' = document /\ requests' = SupersededBy(x)
    BY <1>12 DEF CancelTask, Executes, Advances
  <2> QED
    BY <1>3, <1>5, <2>1, CancelCommitKeeps
<1>13. CASE CompleteTask(x)
  <2>1. \/ Advances(x) /\ calling[x] = "complete"
        \/ Abort(x)
        \/ Finish(x) /\ UNCHANGED <<validation, document, requests>>
    BY <1>13 DEF CompleteTask, Executes, Advances, Commits
  <2> QED
    BY <1>3, <1>5, <2>1, FinishKeeps
<1>14. CASE BindTask(x)
  <2>1. \/ Advances(x) /\ calling[x] = "bind"
        \/ Abort(x)
        \/ Finish(x) /\ UNCHANGED <<validation, document, requests>>
    BY <1>14 DEF BindTask, Executes, Advances, Commits
  <2> QED
    BY <1>3, <1>5, <2>1, FinishKeeps
<1>15. CASE Decide(x)
  <2>1. \/ Advances(x) /\ calling[x] = "decide"
        \/ Abort(x)
        \/ /\ Commits(x, "decide") /\ validation' = "pending"
           /\ document' = document + 1 /\ requests' = requests
    BY <1>15 DEF Decide, Executes, Advances
  <2> QED
    BY <1>3, <1>5, <2>1, ReopeningKeeps
<1> QED
  BY <1>2, <1>3, <1>4, <1>6, <1>7, <1>8, <1>9, <1>10, <1>11, <1>12, <1>13, <1>14, <1>15

\* In every behaviour of overlapping calls the invariant holds.
THEOREM OverlapInvariantHolds == GovernanceSpec => []OverlapInvariant
<1> QED
  BY OverlapInit, OverlapNext, PTL DEF GovernanceSpec

\* However many calls on a task overlap (orchestration.py, validation.py,
\* repository.py, task_lifecycle.py), validation_status says passed only when the
\* newest request is a pass of the document as it is.
THEOREM PassesSurviveOverlap == GovernanceSpec => []PassSurvivesOverlap
<1>1. OverlapInvariant => PassSurvivesOverlap
  BY DEF OverlapInvariant
<1> QED
  BY <1>1, OverlapInvariantHolds, PTL

----------------------------------------------------------------------------
(* Deadlocks. *)

Ordered == DOMAIN Script \ TaskFirst

\* After the state come the request and the task, after the request the task,
\* after the task nothing.
LEMMA OrderOfRows ==
    ASSUME NEW k \in Ordered, NEW n \in Nat, NEW m \in Nat, 1 <= n, n < m, m <= Len(Script[k])
    PROVE  /\ Script[k][n] # "task"
           /\ Script[k][n] = "request" => Script[k][m] = "task"
           /\ Script[k][n] = "state" => Script[k][m] \in {"request", "task"}
<1>1. k \in {"record", "prepare", "verdict", "abandon", "update", "complete", "bind"}
  BY ScriptFacts DEF Ordered, TaskFirst
<1>2. CASE k \in {"verdict", "update", "bind"}
  <2>1. Len(Script[k]) = 2
    BY <1>2, ScriptLengths
  <2>2. n = 1 /\ m = 2
    BY <2>1
  <2> QED
    BY <1>2, <2>2, ScriptStatements
<1>3. CASE k \in {"record", "prepare", "complete"}
  <2>1. Len(Script[k]) = 3
    BY <1>3, ScriptLengths
  <2>2. n \in {1, 2} /\ m \in {2, 3} /\ (n = 2 => m = 3)
    BY <2>1
  <2> QED
    BY <1>3, <2>2, ScriptStatements
<1>4. CASE k = "abandon"
  <2>1. Len(Script[k]) = 4
    BY <1>4, ScriptLengths
  <2>2. n \in {1, 2, 3} /\ m \in {2, 3, 4} /\ (n = 2 => m \in {3, 4}) /\ (n = 3 => m = 4)
    BY <2>1
  <2> QED
    BY <1>4, <2>2, ScriptStatements
<1> QED
  BY <1>1, <1>2, <1>3, <1>4

\* Whoever waits for a row waits for one further in the order than all it holds,
\* so nobody in a circle waits for the task, hence for the request, hence for the state.
LEMMA NoCircle == OverlapInvariant => OrderedCallsNeverDeadlock
<1> SUFFICES ASSUME OverlapInvariant,
                    NEW S \in SUBSET {x \in Live : calling[x] \notin TaskFirst},
                    WaitForEachOther(S)
             PROVE  FALSE
  BY DEF OrderedCallsNeverDeadlock
<1>1. ASSUME NEW x \in S
      PROVE  /\ x \in Txn /\ calling[x] \in Ordered
             /\ position[x] \in 1..Len(Script[calling[x]])
             /\ Needs(x) \in LockedRows /\ Needs(x) = Script[calling[x]][position[x]]
             /\ \E y \in S : lock[Needs(x)] = y
  <2>1. PICK y \in S : Blocks(y, x)
    BY DEF WaitForEachOther
  <2>2. AtStatement(x) /\ Needs(x) # "" /\ lock[Needs(x)] = y
    BY <2>1 DEF Blocks, CanLock
  <2>3. /\ x \in Txn /\ position[x] \in Nat /\ position[x] > 0
        /\ calling[x] \in DOMAIN Script /\ calling[x] \in Ordered
    BY DEF Live, OverlapInvariant, Typing, Ordered
  <2>4. position[x] \in 1..Len(Script[calling[x]])
    <3>1. position[x] <= Len(Script[calling[x]])
      BY <2>2 DEF AtStatement, ScriptOf
    <3>2. Len(Script[calling[x]]) \in Nat
      BY <2>3, ScriptLength
    <3> QED
      BY <2>3, <3>1, <3>2
  <2>5. Script[calling[x]][position[x]] \in LockedRows \cup {""}
    BY <2>3, <2>4, ScriptRows
  <2> QED
    BY <2>2, <2>3, <2>4, <2>5 DEF Needs, ScriptOf
<1>2. ASSUME NEW x \in S
      PROVE  \E y \in S : \E n \in Nat :
               /\ 1 <= n /\ n < position[y] /\ Script[calling[y]][n] = Needs(x)
  <2>1. PICK y \in S : lock[Needs(x)] = y
    BY <1>1
  <2>2. PICK n \in Nat : Locked(y, n, Needs(x))
    BY <1>1, <2>1 DEF OverlapInvariant, HoldersArePast
  <2> QED
    BY <2>2 DEF Locked
<1>3. ASSUME NEW x \in S, Needs(x) = "task" PROVE FALSE
  <2>1. PICK y \in S, n \in Nat : 1 <= n /\ n < position[y] /\ Script[calling[y]][n] = "task"
    BY <1>2, <1>3
  <2>2. position[y] \in Nat /\ position[y] <= Len(Script[calling[y]]) /\ calling[y] \in Ordered
    BY <1>1
  <2> QED
    BY <2>1, <2>2, OrderOfRows
<1>4. ASSUME NEW x \in S, Needs(x) = "request" PROVE FALSE
  <2>1. PICK y \in S, n \in Nat : 1 <= n /\ n < position[y] /\ Script[calling[y]][n] = "request"
    BY <1>2, <1>4
  <2>2. position[y] \in Nat /\ position[y] <= Len(Script[calling[y]]) /\ calling[y] \in Ordered
    BY <1>1
  <2>3. Needs(y) = "task"
    BY <1>1, <2>1, <2>2, OrderOfRows
  <2> QED
    BY <1>3, <2>3
<1>5. ASSUME NEW x \in S, Needs(x) = "state" PROVE FALSE
  <2>1. PICK y \in S, n \in Nat : 1 <= n /\ n < position[y] /\ Script[calling[y]][n] = "state"
    BY <1>2, <1>5
  <2>2. position[y] \in Nat /\ position[y] <= Len(Script[calling[y]]) /\ calling[y] \in Ordered
    BY <1>1
  <2>3. Needs(y) \in {"request", "task"}
    BY <1>1, <2>1, <2>2, OrderOfRows
  <2> QED
    BY <1>3, <1>4, <2>3
<1>6. PICK x \in S : TRUE
  BY DEF WaitForEachOther
<1> QED
  BY <1>1, <1>3, <1>4, <1>5, <1>6 DEF LockedRows

\* Calls that lock task_state before the request and the task never deadlock
\* among themselves, however many overlap (validation.py, repository.py, orchestration.py).
THEOREM OrderedCallsAreFreeOfDeadlock == GovernanceSpec => []OrderedCallsNeverDeadlock
<1> QED
  BY NoCircle, OverlapInvariantHolds, PTL

----------------------------------------------------------------------------
(* The types. *)

\* The bound on documents is not a guard: each transaction writes one at most,
\* and a transaction that is over has no other write to make.
Over == {x \in Txn : calling[x] = "over"}

RowsTyped ==
    /\ lifecycle \in {"open", "completed", "cancelled"}
    /\ boundTo \in BOOLEAN
    /\ recorded \subseteq Txn

CallsMade == \A x \in Txn : calling[x] \in MayCall \cup {"none", "over"}

DocumentsCounted == document <= Cardinality(Over)

RequestsAreDated == \A i \in DOMAIN requests : requests[i].document <= document

TypeInvariant ==
    /\ OverlapInvariant
    /\ RowsTyped
    /\ CallsMade
    /\ DocumentsCounted
    /\ RequestsAreDated

LEMMA OverIsFinite ==
    /\ IsFiniteSet(Over) /\ Cardinality(Over) \in 0..MaxTxn
<1>1. IsFiniteSet(1..MaxTxn) /\ Cardinality(1..MaxTxn) = MaxTxn
  BY FS_Interval, GovernanceAssumption
<1>2. Over \in SUBSET (1..MaxTxn)
  BY DEF Over, Txn
<1>3. IsFiniteSet(Over) /\ Cardinality(Over) <= MaxTxn
  BY <1>1, <1>2, FS_Subset
<1> QED
  BY <1>3, FS_CardinalityType, GovernanceAssumption

\* One more transaction is over.
LEMMA FinishCounts ==
    ASSUME OverlapInvariant, NEW x \in Txn, x \in Live, Finish(x)
    PROVE  Cardinality(Over') = Cardinality(Over) + 1
<1>1. calling[x] # "over"
  BY ScriptNames DEF Live, OverlapInvariant, Typing
<1>2. Over' = Over \cup {x} /\ x \notin Over
  BY <1>1 DEF Over, Finish, OverlapInvariant, Typing
<1>3. PICK S : S = Over
  OBVIOUS
<1>4. Cardinality(S \cup {x}) = Cardinality(S) + 1
  BY <1>2, <1>3, OverIsFinite, FS_AddElement
<1> QED
  BY <1>2, <1>3, <1>4

\* A transaction that ends, having written one document at most.
LEMMA FinishIsTyped ==
    ASSUME TypeInvariant, OverlapInvariant', NEW x \in Txn, x \in Live, Finish(x),
           RowsTyped', document' \in {document, document + 1}, RequestsAreDated'
    PROVE  TypeInvariant'
<1>1. Cardinality(Over') = Cardinality(Over) + 1
  BY FinishCounts DEF TypeInvariant
<1>2. DocumentsCounted'
  <2>1. document \in Nat /\ document <= Cardinality(Over)
    BY DEF TypeInvariant, OverlapInvariant, Typing, DocumentsCounted
  <2>2. Cardinality(Over) \in Nat
    BY OverIsFinite, GovernanceAssumption
  <2>3. document' <= Cardinality(Over')
    BY <1>1, <2>1, <2>2
  <2> QED
    BY <2>3 DEF DocumentsCounted
<1>3. CallsMade'
  BY DEF Finish, CallsMade, TypeInvariant, OverlapInvariant, Typing
<1> QED
  BY <1>2, <1>3 DEF TypeInvariant

\* A transaction that goes on writes nothing.
LEMMA GoingOnIsTyped ==
    ASSUME TypeInvariant, OverlapInvariant', UNCHANGED rowsOfTask,
           \A y \in Txn : calling'[y] = calling[y] \/ (calling[y] = "none" /\ calling'[y] \in MayCall)
    PROVE  TypeInvariant'
<1>1. Over' = Over
  BY ScriptNames, GovernanceAssumption DEF Over
<1>2. DocumentsCounted'
  BY <1>1 DEF TypeInvariant, DocumentsCounted, rowsOfTask
<1> QED
  BY <1>2 DEF TypeInvariant, RowsTyped, CallsMade, RequestsAreDated, rowsOfTask

\* A review that is void is about the document it was about.
LEMMA SupersedingIsDated ==
    ASSUME OverlapInvariant, NEW x \in Txn
    PROVE  /\ DOMAIN SupersededBy(x) = DOMAIN requests
           /\ \A i \in DOMAIN requests : SupersededBy(x)[i].document = requests[i].document
<1>1. \A i \in DOMAIN requests : requests[i] \in Requests
  BY ElementOfSeq DEF OverlapInvariant, Typing
<1>2. \A i \in DOMAIN requests : [requests[i] EXCEPT !.status = "void"].document = requests[i].document
  BY <1>1 DEF Requests
<1> QED
  BY <1>2 DEF SupersededBy

\* What the calls write is typed.
LEMMA WritesAreTyped ==
    ASSUME TypeInvariant, OverlapInvariant', NEW x \in Txn,
           \/ RecordEvidence(x) \/ PrepareReview(x) \/ RecordVerdict(x) \/ AbandonReview(x)
           \/ UpdateState(x) \/ Decide(x) \/ InvalidateReview(x) \/ CancelTask(x)
           \/ CompleteTask(x) \/ BindTask(x)
    PROVE  TypeInvariant'
<1>1. ASSUME NEW k, NEW n, NEW asks, Executes(x, k, n, asks) PROVE TypeInvariant'
  <2>1. CASE asks
    <3>1. UNCHANGED rowsOfTask /\ calling' = calling
      BY <1>1, <2>1 DEF Executes
    <3> QED
      BY <3>1, GoingOnIsTyped
  <2>2. CASE ~asks
    <3>1. x \in Live /\ Finish(x) /\ UNCHANGED rowsOfTask
      BY <1>1, <2>2 DEF Executes, Abort, AtStatement
    <3>2. RowsTyped' /\ RequestsAreDated' /\ document' = document
      BY <3>1 DEF rowsOfTask, RowsTyped, RequestsAreDated, TypeInvariant
    <3> QED
      BY <3>1, <3>2, FinishIsTyped
  <2> QED
    BY <2>1, <2>2
<1>2. ASSUME NEW k, Commits(x, k), RowsTyped', document' \in {document, document + 1}, RequestsAreDated'
      PROVE  TypeInvariant'
  BY <1>2, FinishIsTyped DEF Commits
<1>3. RowsTyped /\ RequestsAreDated /\ document \in Nat /\ requests \in Seq(Requests)
      /\ \A i \in DOMAIN requests : requests[i].document \in Nat
  <2>1. requests \in Seq(Requests) /\ document \in Nat
    BY DEF TypeInvariant, OverlapInvariant, Typing
  <2>2. \A i \in DOMAIN requests : requests[i] \in Requests
    BY <2>1, ElementOfSeq
  <2> QED
    BY <2>1, <2>2 DEF TypeInvariant, Requests
<1>4. CASE RecordEvidence(x)
  <2>1. CASE /\ Commits(x, "record")
             /\ recorded' = recorded \cup {x}
             /\ UNCHANGED <<lifecycle, boundTo, validation, document, requests>>
    BY <1>2, <1>3, <2>1 DEF RowsTyped, RequestsAreDated
  <2> QED
    BY <1>1, <1>4, <2>1 DEF RecordEvidence, MaterialAllowed
<1>5. CASE PrepareReview(x)
  <2> DEFINE new == [status |-> "pending", document |-> document, time |-> 0]
  <2>1. CASE /\ Commits(x, "prepare")
             /\ requests' = Append(SupersededBy(x), new)
             /\ UNCHANGED <<lifecycle, boundTo, document, recorded>>
    <3>1. SupersededBy(x) \in Seq(Requests) /\ Len(SupersededBy(x)) = Len(requests)
      BY SupersededRows DEF TypeInvariant
    <3>2. /\ DOMAIN requests = 1..Len(requests) /\ Len(requests) \in Nat
          /\ \A i \in DOMAIN requests : SupersededBy(x)[i].document = requests[i].document
      BY <1>3, SupersedingIsDated, LenProperties DEF TypeInvariant
    <3>3. new \in Requests /\ new.document = document
      BY <1>3 DEF Requests
    <3> HIDE DEF new
    <3>4. /\ Len(requests') = Len(requests) + 1 /\ requests' \in Seq(Requests)
          /\ \A i \in 1..Len(requests) : requests'[i] = SupersededBy(x)[i]
          /\ requests'[Len(requests) + 1] = new
      BY <2>1, <3>1, <3>3, AppendProperties
    <3>5. DOMAIN requests' = 1..(Len(requests) + 1)
      BY <3>4, LenProperties
    <3>6. RequestsAreDated'
      BY <1>3, <2>1, <3>2, <3>3, <3>4, <3>5 DEF RequestsAreDated
    <3> QED
      BY <1>2, <1>3, <2>1, <3>6 DEF RowsTyped
  <2> QED
    BY <1>1, <1>5, <2>1 DEF PrepareReview
<1>6. CASE RecordVerdict(x)
  <2>1. CASE /\ Commits(x, "verdict")
             /\ \E outcome \in {"passed", "failed"} :
                  requests' = [requests EXCEPT ![target[x]].status = outcome, ![target[x]].time = x]
             /\ UNCHANGED <<lifecycle, boundTo, document, recorded>>
    <3>1. /\ DOMAIN requests' = DOMAIN requests
          /\ \A i \in DOMAIN requests : requests[i] \in Requests
      BY <1>3, <2>1, ElementOfSeq
    <3>2. \A i \in DOMAIN requests : requests'[i].document = requests[i].document
      BY <2>1, <3>1 DEF Requests
    <3>3. RequestsAreDated'
      BY <1>3, <2>1, <3>1, <3>2 DEF RequestsAreDated
    <3> QED
      BY <1>2, <1>3, <2>1, <3>3 DEF RowsTyped
  <2> QED
    BY <1>1, <1>6, <2>1 DEF RecordVerdict, RequestIsPending, DocumentReviewed
<1>7. CASE AbandonReview(x)
  <2>1. CASE /\ Commits(x, "abandon") /\ requests' = SupersededBy(x)
             /\ UNCHANGED <<lifecycle, boundTo, document, recorded>>
    <3>1. RequestsAreDated'
      BY <1>3, <2>1, SupersedingIsDated DEF RequestsAreDated, TypeInvariant
    <3> QED
      BY <1>2, <1>3, <2>1, <3>1 DEF RowsTyped
  <2> QED
    BY <1>1, <1>7, <2>1 DEF AbandonReview, RequestIsPending
<1>8. CASE UpdateState(x) \/ Decide(x)
  <2>1. CASE /\ Commits(x, "update") \/ Commits(x, "decide")
             /\ document' = document + 1
             /\ UNCHANGED <<lifecycle, boundTo, requests, recorded>>
    <3>1. RequestsAreDated'
      BY <1>3, <2>1 DEF RequestsAreDated
    <3> QED
      BY <1>2, <1>3, <2>1, <3>1 DEF RowsTyped
  <2> QED
    BY <1>1, <1>8, <2>1 DEF UpdateState, Decide
<1>9. CASE InvalidateReview(x)
  <2>1. CASE /\ Commits(x, "invalidate")
             /\ UNCHANGED <<lifecycle, boundTo, document, requests, recorded>>
    BY <1>2, <1>3, <2>1 DEF RowsTyped, RequestsAreDated
  <2> QED
    BY <1>1, <1>9, <2>1 DEF InvalidateReview
<1>10. CASE CancelTask(x)
  <2>1. CASE /\ Commits(x, "cancel")
             /\ lifecycle' = "cancelled" /\ boundTo' = FALSE
             /\ requests' = SupersededBy(x)
             /\ UNCHANGED <<document, recorded>>
    <3>1. RequestsAreDated'
      BY <1>3, <2>1, SupersedingIsDated DEF RequestsAreDated, TypeInvariant
    <3> QED
      BY <1>2, <1>3, <2>1, <3>1 DEF RowsTyped
  <2> QED
    BY <1>1, <1>10, <2>1 DEF CancelTask
<1>11. CASE CompleteTask(x)
  <2>1. CASE /\ Commits(x, "complete")
             /\ lifecycle' = "completed" /\ boundTo' = FALSE
             /\ UNCHANGED <<validation, document, requests, recorded>>
    BY <1>2, <1>3, <2>1 DEF RowsTyped, RequestsAreDated
  <2> QED
    BY <1>1, <1>11, <2>1 DEF CompleteTask, Current, PassIsNewer
<1>12. CASE BindTask(x)
  <2>1. CASE /\ Commits(x, "bind")
             /\ boundTo' = TRUE
             /\ UNCHANGED <<lifecycle, validation, document, requests, recorded>>
    BY <1>2, <1>3, <2>1 DEF RowsTyped, RequestsAreDated
  <2> QED
    BY <1>1, <1>12, <2>1 DEF BindTask
<1> QED
  BY <1>4, <1>5, <1>6, <1>7, <1>8, <1>9, <1>10, <1>11, <1>12

LEMMA TypeStep == TypeInvariant /\ [GovernanceNext]_governanceVars => TypeInvariant'
<1> SUFFICES ASSUME TypeInvariant, [GovernanceNext]_governanceVars PROVE TypeInvariant'
  OBVIOUS
<1>1. OverlapInvariant'
  BY OverlapNext DEF TypeInvariant
<1>2. CASE UNCHANGED governanceVars
  BY <1>1, <1>2, GoingOnIsTyped DEF governanceVars, txnVars
<1>3. ASSUME NEW x \in Txn, NEW k \in MayCall, StartTxn(x, k) PROVE TypeInvariant'
  <2>1. UNCHANGED rowsOfTask /\ calling[x] = "none" /\ calling' = [calling EXCEPT ![x] = k]
    BY <1>3 DEF StartTxn
  <2>2. \A y \in Txn : calling'[y] = calling[y] \/ (calling[y] = "none" /\ calling'[y] \in MayCall)
    BY <2>1 DEF TypeInvariant, OverlapInvariant, Typing
  <2> QED
    BY <1>1, <2>1, <2>2, GoingOnIsTyped
<1>4. ASSUME NEW x \in Txn, DeadlockDetected(x) \/ (x \in Live /\ Abort(x)) PROVE TypeInvariant'
  <2>1. x \in Live /\ Finish(x) /\ UNCHANGED rowsOfTask
    BY <1>4 DEF DeadlockDetected, Abort
  <2>2. RowsTyped' /\ RequestsAreDated' /\ document' = document
    BY <2>1 DEF rowsOfTask, RowsTyped, RequestsAreDated, TypeInvariant
  <2> QED
    BY <1>1, <2>1, <2>2, FinishIsTyped
<1> QED
  BY <1>1, <1>2, <1>3, <1>4, WritesAreTyped DEF GovernanceNext

LEMMA TypeInit == GovernanceInit => TypeInvariant
<1> SUFFICES ASSUME GovernanceInit PROVE TypeInvariant
  OBVIOUS
<1>1. RequestsAreDated /\ document = 0
  <2>1. requests = <<>> => DOMAIN requests = {}
    OBVIOUS
  <2>2. requests = <<[status |-> "pending", document |-> 0, time |-> 0]>> =>
          \A i \in DOMAIN requests : requests[i].document = 0
    OBVIOUS
  <2> QED
    BY <2>1, <2>2 DEF GovernanceInit, RequestsAreDated
<1>2. DocumentsCounted
  BY <1>1, OverIsFinite, GovernanceAssumption DEF DocumentsCounted
<1> QED
  BY <1>1, <1>2, OverlapInit DEF GovernanceInit, TypeInvariant, RowsTyped, CallsMade

LEMMA TypeInvariantIsType == TypeInvariant => GovernanceTypeOK
<1> SUFFICES ASSUME TypeInvariant PROVE GovernanceTypeOK
  OBVIOUS
<1>1. OverlapInvariant /\ Typing
  BY DEF TypeInvariant, OverlapInvariant
<1>2. document \in 0..MaxTxn
  BY <1>1, OverIsFinite, GovernanceAssumption DEF Typing, TypeInvariant, DocumentsCounted
<1>3. \A i \in DOMAIN requests :
         /\ requests[i].status \in {"pending", "passed", "failed", "void"}
         /\ requests[i].document \in 0..document
  <2>1. \A i \in DOMAIN requests : requests[i] \in Requests
    BY <1>1, ElementOfSeq DEF Typing
  <2> QED
    BY <1>1, <2>1 DEF Requests, TypeInvariant, RequestsAreDated, Typing
<1>4. Cardinality(PendingAt) <= 1
  <2>1. PendingAt = {} \/ PendingAt = {Len(requests)}
    BY <1>1 DEF OverlapInvariant, PendingIsLast
  <2>2. Cardinality({}) = 0 /\ Cardinality({Len(requests)}) = 1
    BY FS_EmptySet, FS_Singleton
  <2>3. Cardinality(PendingAt) = 0 \/ Cardinality(PendingAt) = 1
    BY <2>1, <2>2
  <2> QED
    BY <2>3
<1> QED
  BY <1>1, <1>2, <1>3, <1>4 DEF GovernanceTypeOK, Typing, TypeInvariant, RowsTyped, CallsMade

\* The rows of a task are typed whatever calls overlap: in particular at most one
\* validation request of it is pending at a time, as validation.py assumes.
THEOREM GovernanceTypeCorrect == GovernanceSpec => []GovernanceTypeOK
<1> QED
  BY TypeInit, TypeStep, TypeInvariantIsType, PTL DEF GovernanceSpec

----------------------------------------------------------------------------
(* The calls as if they were made one after the other: what a call has     *)
(* found under the lock of a row is so until it commits, because whoever   *)
(* writes that has locked the row.  What was read without the lock (that   *)
(* the task is open when a review is prepared, that a session is bound)    *)
(* need not be, and the serial task does not ask for it.                   *)

\* Transaction x makes call k and has statement n behind it.
Behind(x, k, n) == calling[x] = k /\ position[x] > n

FoundOfState(x) ==
    /\ Behind(x, "prepare", 2) => validation # "passed"
    /\ Behind(x, "verdict", 2) => target[x] \in PendingAt
    /\ Behind(x, "abandon", 3) => target[x] \in PendingAt
    /\ Behind(x, "update", 1) => validation # "passed" /\ PendingAt = {}
    /\ Behind(x, "decide", 2) => validation # "passed"
    /\ Behind(x, "invalidate", 2) => validation = "passed"
    /\ Behind(x, "cancel", 3) => validation # "passed"
    /\ Behind(x, "complete", 2) => validation = "passed"

FoundOfTask(x) ==
    Behind(x, "abandon", 4) \/ Behind(x, "decide", 1) \/ Behind(x, "invalidate", 1) \/ Behind(x, "cancel", 1)
        => lifecycle = "open"

\* Who abandons a review has found it pending, and so has locked it.
AbandonedIsLocked(x) == Behind(x, "abandon", 3) => lock["request"] = x

Found(x) == FoundOfState(x) /\ FoundOfTask(x) /\ AbandonedIsLocked(x)

SerialInvariant == OverlapInvariant /\ \A x \in Txn : Found(x)

LEMMA SerialInit == GovernanceInit => SerialInvariant
<1> SUFFICES ASSUME GovernanceInit PROVE SerialInvariant
  OBVIOUS
<1>1. \A x \in Txn, k \in DOMAIN Script, n \in Nat : ~Behind(x, k, n)
  BY DEF GovernanceInit, Behind
<1>2. \A x \in Txn : Found(x)
  BY <1>1, ScriptFacts DEF Found, FoundOfState, FoundOfTask, AbandonedIsLocked
<1> QED
  BY <1>2, OverlapInit DEF SerialInvariant

\* What was found under a row is about a row that is held.
LEMMA BehindIsHeld ==
    ASSUME OverlapInvariant, NEW x \in Txn
    PROVE  /\ \/ Behind(x, "prepare", 2) \/ Behind(x, "verdict", 2) \/ Behind(x, "abandon", 3)
              \/ Behind(x, "update", 1) \/ Behind(x, "decide", 2) \/ Behind(x, "invalidate", 2)
              \/ Behind(x, "cancel", 3) \/ Behind(x, "complete", 2)
              => lock["state"] = x
           /\ \/ Behind(x, "abandon", 4) \/ Behind(x, "decide", 1) \/ Behind(x, "invalidate", 1)
              \/ Behind(x, "cancel", 1) \/ Behind(x, "complete", 3)
              => lock["task"] = x
<1>1. position[x] \in Nat
  BY DEF OverlapInvariant, Typing
<1>2. ASSUME NEW n \in 1..4, NEW r \in {"state", "task"}, position[x] > n, Script[calling[x]][n] = r
      PROVE  lock[r] = x
  BY <1>1, <1>2 DEF OverlapInvariant, RowsAreHeld, Locked
<1>3. \/ Behind(x, "prepare", 2) \/ Behind(x, "abandon", 3) \/ Behind(x, "decide", 2)
      \/ Behind(x, "invalidate", 2) \/ Behind(x, "complete", 2)
      => position[x] > 2 /\ Script[calling[x]][2] = "state"
  <2>1. Behind(x, "abandon", 3) => position[x] > 2 /\ Script[calling[x]][2] = "state"
    <3>1. Behind(x, "abandon", 3) => calling[x] = "abandon" /\ position[x] > 2
      BY <1>1 DEF Behind
    <3> QED
      BY <3>1, ScriptStatements
  <2>2. \/ Behind(x, "prepare", 2) \/ Behind(x, "decide", 2)
        \/ Behind(x, "invalidate", 2) \/ Behind(x, "complete", 2)
        => position[x] > 2 /\ Script[calling[x]][2] = "state"
    BY ScriptStatements DEF Behind
  <2> QED
    BY <2>1, <2>2
<1>4. Behind(x, "verdict", 2) \/ Behind(x, "update", 1)
      => position[x] > 1 /\ Script[calling[x]][1] = "state"
  <2>1. Behind(x, "verdict", 2) => calling[x] = "verdict" /\ position[x] > 1
    BY <1>1 DEF Behind
  <2>2. Behind(x, "update", 1) => calling[x] = "update" /\ position[x] > 1
    BY DEF Behind
  <2> QED
    BY <2>1, <2>2, ScriptStatements
<1>5. Behind(x, "cancel", 3) => position[x] > 3 /\ Script[calling[x]][3] = "state"
  BY ScriptStatements DEF Behind
<1>6. Behind(x, "decide", 1) \/ Behind(x, "invalidate", 1) \/ Behind(x, "cancel", 1)
      => position[x] > 1 /\ Script[calling[x]][1] = "task"
  BY ScriptStatements DEF Behind
<1>7. Behind(x, "abandon", 4) => position[x] > 4 /\ Script[calling[x]][4] = "task"
  BY ScriptStatements DEF Behind
<1>8. Behind(x, "complete", 3) => position[x] > 3 /\ Script[calling[x]][3] = "task"
  BY ScriptStatements DEF Behind
<1> QED
  BY <1>2, <1>3, <1>4, <1>5, <1>6, <1>7, <1>8

\* Another transaction goes on, and nothing is written.
LEMMA FoundStays ==
    ASSUME UNCHANGED <<rowsOfTask, calling, target>>, NEW y \in Txn, Found(y),
           position'[y] = position[y], lock["request"] = y => lock'["request"] = y
    PROVE  Found(y)'
BY DEF Found, FoundOfState, FoundOfTask, AbandonedIsLocked, Behind, PendingAt, rowsOfTask

\* A transaction ends, and has written under the locks of the rows at most.
LEMMA FinishFinds ==
    ASSUME SerialInvariant, OverlapInvariant', NEW x \in Txn, Finish(x),
           UNCHANGED <<validation, requests>> \/ lock["state"] = x,
           lifecycle' = lifecycle \/ lock["task"] = x
    PROVE  SerialInvariant'
<1>1. OthersStay(x)
  BY FinishKeepsLocks DEF SerialInvariant
<1>2. position'[x] = 0 /\ position' \in [Txn -> Nat]
  BY DEF Finish, SerialInvariant, OverlapInvariant, Typing
<1>3. ASSUME NEW y \in Txn PROVE Found(y)'
  <2>1. CASE position'[y] = 0
    BY <2>1 DEF Found, FoundOfState, FoundOfTask, AbandonedIsLocked, Behind
  <2>2. CASE position'[y] # 0
    <3>1. /\ y # x /\ position'[y] = position[y] /\ calling'[y] = calling[y] /\ target'[y] = target[y]
          /\ lock["request"] = y => lock'["request"] = y
      BY <1>1, <1>2, <2>2 DEF OthersStay, LockedRows
    <3>2. \A k, n : Behind(y, k, n)' <=> Behind(y, k, n)
      BY <3>1 DEF Behind
    <3>3. Found(y)
      BY DEF SerialInvariant
    <3>4. FoundOfState(y)'
      <4>1. CASE UNCHANGED <<validation, requests>>
        BY <3>1, <3>2, <3>3, <4>1 DEF Found, FoundOfState, PendingAt
      <4>2. CASE lock["state"] = x
        BY <3>1, <3>2, <4>2, BehindIsHeld DEF FoundOfState, SerialInvariant
      <4> QED
        BY <4>1, <4>2
    <3>5. FoundOfTask(y)'
      <4>1. CASE lifecycle' = lifecycle
        BY <3>2, <3>3, <4>1 DEF Found, FoundOfTask
      <4>2. CASE lock["task"] = x
        BY <3>1, <3>2, <4>2, BehindIsHeld DEF FoundOfTask, SerialInvariant
      <4> QED
        BY <4>1, <4>2
    <3>6. AbandonedIsLocked(y)'
      BY <3>1, <3>2, <3>3 DEF Found, AbandonedIsLocked
    <3> QED
      BY <3>4, <3>5, <3>6 DEF Found
  <2> QED
    BY <2>1, <2>2
<1> QED
  BY <1>3 DEF SerialInvariant

----------------------------------------------------------------------------
(* What a commit is in the serial task. *)

SerialStep == Serial!Next \/ UNCHANGED Serial!vars

LEMMA NothingIsSeen ==
    ASSUME UNCHANGED <<lifecycle, validation, document, requests>>
    PROVE  SerialStep
<1>1. LastReview' = LastReview
  BY DEF LastReview
<1> QED
  BY <1>1 DEF SerialStep, Serial!vars

\* The statement that x is at finds what it asks for, which is so from then on.
At(x, k, n) == calling[x] = k /\ position[x] = n

Finds(x) ==
    /\ At(x, "prepare", 2) => validation # "passed"
    /\ At(x, "verdict", 2) => target[x] \in PendingAt
    /\ At(x, "abandon", 3) => target[x] \in PendingAt
    /\ At(x, "update", 1) => validation # "passed" /\ PendingAt = {}
    /\ At(x, "decide", 2) => validation # "passed"
    /\ At(x, "invalidate", 2) => validation = "passed"
    /\ At(x, "cancel", 3) => validation # "passed"
    /\ At(x, "complete", 2) => validation = "passed"
    /\ At(x, "abandon", 4) \/ At(x, "decide", 1) \/ At(x, "invalidate", 1) \/ At(x, "cancel", 1)
       => lifecycle = "open"

LEMMA StatementIsSerial ==
    ASSUME SerialInvariant, OverlapInvariant', NEW x \in Txn,
           Abort(x) \/ (Advances(x) /\ Finds(x))
    PROVE  SerialInvariant' /\ SerialStep
<1>1. CASE Abort(x)
  BY <1>1, FinishFinds, NothingIsSeen DEF Abort, rowsOfTask
<1>2. CASE Advances(x) /\ Finds(x)
  <2>1. UNCHANGED <<rowsOfTask, calling, target>>
    BY <1>2 DEF Advances
  <2>2. /\ position[x] \in Nat /\ position'[x] = position[x] + 1
        /\ \A y \in Txn : y # x => position'[y] = position[y]
    BY <1>2 DEF Advances, SerialInvariant, OverlapInvariant, Typing
  <2>3. \A r \in LockedRows, y \in Txn : lock[r] = y => lock'[r] = y
    <3>1. CASE Needs(x) = ""
      BY <1>2, <3>1 DEF Advances
    <3>2. CASE Needs(x) # ""
      <4>1. lock' = [lock EXCEPT ![Needs(x)] = x] /\ lock[Needs(x)] \in {NoTxn, x}
        BY <1>2, <3>2 DEF Advances, CanLock
      <4> QED
        BY <4>1 DEF SerialInvariant, OverlapInvariant, Typing, Txn, NoTxn
    <3> QED
      BY <3>1, <3>2
  <2>4. ASSUME NEW y \in Txn, y # x PROVE Found(y)'
    BY <2>1, <2>2, <2>3, <2>4, FoundStays DEF SerialInvariant, LockedRows
  <2>5. Found(x)'
    <3>1. Found(x) /\ Finds(x)
      BY <1>2 DEF SerialInvariant
    <3>2. \A k : \A n \in Nat : Behind(x, k, n)' <=> Behind(x, k, n) \/ At(x, k, n)
      BY <2>1, <2>2 DEF Behind, At
    <3>3. UNCHANGED <<validation, lifecycle, requests>> /\ target'[x] = target[x] /\ PendingAt' = PendingAt
      BY <2>1 DEF rowsOfTask, PendingAt
    <3>4. FoundOfState(x)'
      BY <3>1, <3>2, <3>3 DEF Found, FoundOfState, Finds
    <3>5. FoundOfTask(x)'
      BY <3>1, <3>2, <3>3 DEF Found, FoundOfTask, Finds
    <3>6. AbandonedIsLocked(x)'
      <4>1. CASE At(x, "abandon", 3)
        <5>1. Script["abandon"][3] = "request" /\ PendingAt # {}
          BY <3>1, <4>1, ScriptStatements DEF Finds
        <5>2. Needs(x) = "request"
          BY <4>1, <5>1 DEF Needs, ScriptOf, At
        <5> QED
          BY <1>2, <5>2 DEF Advances, AbandonedIsLocked, SerialInvariant, OverlapInvariant, Typing, LockedRows
      <4>2. CASE ~At(x, "abandon", 3)
        BY <2>3, <3>1, <3>2, <4>2 DEF Found, AbandonedIsLocked, LockedRows
      <4> QED
        BY <4>1, <4>2
    <3> QED
      BY <3>4, <3>5, <3>6 DEF Found
  <2>6. \A y \in Txn : Found(y)'
    BY <2>4, <2>5
  <2> QED
    BY <2>1, <2>6, NothingIsSeen DEF SerialInvariant, rowsOfTask
<1> QED
  BY <1>1, <1>2

\* The last review, and what superseding makes of it.
LEMMA LastReviewNow ==
    ASSUME OverlapInvariant
    PROVE  /\ requests # <<>> => /\ Len(requests) \in DOMAIN requests /\ requests[Len(requests)] \in Requests
                                 /\ LastReview = [status |-> requests[Len(requests)].status,
                                                  document |-> requests[Len(requests)].document]
           /\ PendingAt # {} => requests # <<>> /\ Len(requests) \in PendingAt
           /\ PendingAt = {} => LastReview.status # "pending"
<1>1. requests \in Seq(Requests) /\ DOMAIN requests = 1..Len(requests) /\ Len(requests) \in Nat
  BY LenProperties DEF OverlapInvariant, Typing
<1>2. requests # <<>> => Len(requests) \in DOMAIN requests
  <2>1. requests # <<>> => Len(requests) # 0
    BY <1>1, EmptySeq
  <2> QED
    BY <1>1, <2>1
<1>3. requests # <<>> => /\ requests[Len(requests)] \in Requests
                         /\ LastReview = [status |-> requests[Len(requests)].status,
                                          document |-> requests[Len(requests)].document]
  BY <1>1, <1>2, ElementOfSeq DEF LastReview, Newest
<1>4. PendingAt # {} => requests # <<>> /\ Len(requests) \in PendingAt
  BY DEF OverlapInvariant, PendingIsLast, PendingAt
<1>5. PendingAt = {} => LastReview.status # "pending"
  BY <1>2, <1>3 DEF PendingAt, LastReview
<1> QED
  BY <1>2, <1>3, <1>4, <1>5

LEMMA SupersedingIsSerial ==
    ASSUME OverlapInvariant, NEW x \in Txn, requests' = SupersededBy(x)
    PROVE  /\ lock["request"] = x /\ PendingAt # {} => Serial!Void
           /\ Serial!Void \/ LastReview' = LastReview
<1>1. CASE lock["request"] # x
  BY <1>1 DEF SupersededBy, LastReview
<1>2. CASE requests = <<>>
  <2>1. requests' = <<>> /\ PendingAt = {}
    <3>1. SupersededBy(x) \in Seq(Requests) /\ Len(SupersededBy(x)) = 0
      BY <1>2, SupersededRows
    <3>2. SupersededBy(x) = <<>>
      BY <3>1, EmptySeq
    <3> QED
      BY <1>2, <3>2 DEF PendingAt
  <2> QED
    BY <1>2, <2>1 DEF LastReview
<1>3. CASE lock["request"] = x /\ requests # <<>>
  <2> DEFINE n == Len(requests)
  <2>1. /\ n \in DOMAIN requests /\ requests[n] \in Requests
        /\ LastReview = [status |-> requests[n].status, document |-> requests[n].document]
    BY <1>3, LastReviewNow
  <2>2. /\ Len(requests') = n /\ requests' \in Seq(Requests)
        /\ requests'[n] = IF n \in PendingAt THEN [requests[n] EXCEPT !.status = "void"] ELSE requests[n]
    BY <1>3, <2>1, SupersededRows DEF SupersededBy
  <2>3. requests' # <<>>
    BY <2>1, <2>2, EmptySeq, LenProperties DEF OverlapInvariant, Typing
  <2>4. LastReview' = [status |-> requests'[n].status, document |-> requests'[n].document]
    BY <2>2, <2>3 DEF LastReview, Newest
  <2>5. CASE n \in PendingAt
    <3>1. requests[n].status = "pending"
      BY <2>5 DEF PendingAt
    <3>2. requests'[n].status = "void" /\ requests'[n].document = requests[n].document
      BY <2>1, <2>2, <2>5 DEF Requests
    <3> QED
      BY <2>1, <2>4, <3>1, <3>2 DEF Serial!Void
  <2>6. CASE n \notin PendingAt
    <3>1. PendingAt = {}
      BY <2>6, LastReviewNow
    <3> QED
      BY <2>1, <2>2, <2>4, <2>6, <3>1
  <2> QED
    BY <2>5, <2>6
<1> QED
  BY <1>1, <1>2, <1>3

\* What a call has behind it when it commits.
LEMMA CommitIsBehind ==
    ASSUME NEW x \in Txn, NEW k \in DOMAIN Script, Commits(x, k)
    PROVE  /\ Finish(x) /\ Behind(x, k, 1)
           /\ k \in {"prepare", "verdict", "abandon", "decide", "invalidate", "complete", "update", "cancel"} =>
                  Behind(x, k, 2)
           /\ k \in {"prepare", "abandon", "cancel", "complete"} => Behind(x, k, 3)
           /\ k = "abandon" => Behind(x, k, 4)
           /\ k = "verdict" => At(x, k, 3)
<1>1. Finish(x) /\ calling[x] = k /\ position[x] = Len(Script[k]) + 1
  BY DEF Commits, ScriptOf
<1>2. CASE k \in {"prepare", "cancel", "complete", "record"}
  <2>1. Len(Script[k]) = 3
    BY <1>2, ScriptLengths
  <2>2. position[x] = 4
    BY <1>1, <2>1
  <2> QED
    BY <1>1, <1>2, <2>2 DEF Behind
<1>3. CASE k \in {"verdict", "update", "invalidate", "decide", "bind"}
  <2>1. Len(Script[k]) = 2
    BY <1>3, ScriptLengths
  <2>2. position[x] = 3
    BY <1>1, <2>1
  <2> QED
    BY <1>1, <1>3, <2>2 DEF Behind, At
<1>4. CASE k = "abandon"
  <2>1. Len(Script[k]) = 4
    BY <1>4, ScriptLengths
  <2>2. position[x] = 5
    BY <1>1, <2>1
  <2> QED
    BY <1>1, <1>4, <2>2 DEF Behind
<1> QED
  BY <1>2, <1>3, <1>4, ScriptFacts

\* A call that writes the review holds task_state; a cancellation holds the task, too.
LEMMA WriterFinds ==
    ASSUME SerialInvariant, OverlapInvariant', NEW x \in Txn, NEW k \in StateWriters, Commits(x, k),
           lifecycle' = lifecycle \/ k = "cancel"
    PROVE  SerialInvariant'
<1>1. lock["state"] = x /\ Finish(x)
  BY CommitHolds DEF SerialInvariant, Commits
<1>2. k = "cancel" => lock["task"] = x
  <2> SUFFICES ASSUME k = "cancel" PROVE lock["task"] = x
    OBVIOUS
  <2>1. Behind(x, "cancel", 1)
    BY CommitIsBehind, ScriptFacts
  <2> QED
    BY <2>1, BehindIsHeld DEF SerialInvariant
<1> QED
  BY <1>1, <1>2, FinishFinds

LEMMA RecordIsSerial ==
    ASSUME SerialInvariant, OverlapInvariant', NEW x \in Txn, RecordEvidence(x) \/ BindTask(x)
    PROVE  SerialInvariant' /\ SerialStep
<1>1. CASE Finish(x) /\ UNCHANGED <<lifecycle, validation, document, requests>>
  BY <1>1, FinishFinds, NothingIsSeen
<1>2. CASE Abort(x) \/ (Advances(x) /\ Finds(x))
  BY <1>2, StatementIsSerial
<1> QED
  BY <1>1, <1>2 DEF RecordEvidence, BindTask, Executes, Commits, Advances, Finds, At

LEMMA PrepareIsSerial ==
    ASSUME SerialInvariant, OverlapInvariant', NEW x \in Txn, PrepareReview(x)
    PROVE  SerialInvariant' /\ SerialStep
<1>0. "prepare" \in DOMAIN Script /\ "prepare" \in StateWriters
  BY ScriptFacts DEF StateWriters
<1>1. CASE /\ Commits(x, "prepare") /\ validation' = "pending"
           /\ requests' = Append(SupersededBy(x), [status |-> "pending", document |-> document, time |-> 0])
           /\ UNCHANGED <<lifecycle, boundTo, document, recorded>>
  <2>1. SerialInvariant'
    BY <1>0, <1>1, WriterFinds
  <2>2. validation # "passed"
    <3>1. Behind(x, "prepare", 2)
      BY <1>0, <1>1, CommitIsBehind
    <3> QED
      BY <3>1 DEF SerialInvariant, Found, FoundOfState
  <2>3. LastReview' = [status |-> "pending", document |-> document]
    <3> DEFINE new == [status |-> "pending", document |-> document, time |-> 0]
               S == SupersededBy(x)
    <3>1. S \in Seq(Requests) /\ new \in Requests
      BY SupersededRows DEF SerialInvariant, OverlapInvariant, Typing, Requests
    <3>2. requests' = Append(S, new)
      BY <1>1
    <3> HIDE DEF S, new
    <3>3. /\ Len(requests') = Len(S) + 1 /\ requests'[Len(S) + 1] = new
          /\ requests' # <<>>
      BY <3>1, <3>2, AppendProperties
    <3>4. new.status = "pending" /\ new.document = document
      BY DEF new
    <3> QED
      BY <3>3, <3>4 DEF LastReview, Newest
  <2> QED
    BY <1>1, <2>1, <2>2, <2>3 DEF SerialStep, Serial!Next, Serial!Ask
<1>2. CASE Abort(x) \/ (Advances(x) /\ Finds(x))
  BY <1>2, StatementIsSerial
<1>3. CASE /\ Advances(x) /\ calling[x] = "prepare"
           /\ position[x] = 1 \/ (position[x] = 2 /\ validation # "passed") \/ position[x] = 3
  <2>1. Finds(x)
    BY <1>3 DEF Finds, At
  <2> QED
    BY <1>2, <1>3, <2>1
<1> QED
  <2>1. \/ /\ Commits(x, "prepare") /\ validation' = "pending"
           /\ requests' = Append(SupersededBy(x), [status |-> "pending", document |-> document, time |-> 0])
           /\ UNCHANGED <<lifecycle, boundTo, document, recorded>>
        \/ Abort(x)
        \/ /\ Advances(x) /\ calling[x] = "prepare"
           /\ position[x] = 1 \/ (position[x] = 2 /\ validation # "passed") \/ position[x] = 3
    BY DEF PrepareReview, Executes, Advances
  <2> QED
    BY <1>1, <1>2, <1>3, <2>1

LEMMA VerdictIsSerial ==
    ASSUME SerialInvariant, OverlapInvariant', NEW x \in Txn, RecordVerdict(x)
    PROVE  SerialInvariant' /\ SerialStep
<1>0. "verdict" \in DOMAIN Script /\ "verdict" \in StateWriters
  BY ScriptFacts DEF StateWriters
<1>1. ASSUME Commits(x, "verdict"), NEW outcome \in {"passed", "failed"}, validation' = outcome,
             requests' = [requests EXCEPT ![target[x]].status = outcome, ![target[x]].time = x],
             UNCHANGED <<lifecycle, boundTo, document, recorded>>
      PROVE  SerialInvariant' /\ SerialStep
  <2>1. SerialInvariant'
    BY <1>0, <1>1, WriterFinds
  <2>2. target[x] \in PendingAt /\ target[x] = Len(requests) /\ requests[target[x]].document = document
    <3>1. Behind(x, "verdict", 2) /\ position[x] = 3 /\ calling[x] = "verdict"
      BY <1>0, <1>1, CommitIsBehind DEF At
    <3> QED
      BY <3>1 DEF SerialInvariant, Found, FoundOfState, OverlapInvariant, VerdictIsOnNewest, Judges
  <2>3. LastReview = [status |-> "pending", document |-> document]
    BY <2>2, LastReviewNow DEF SerialInvariant, PendingAt
  <2>4. PICK n : n = Len(requests)
    OBVIOUS
  <2>5. n \in DOMAIN requests /\ requests[n] \in Requests
    BY <2>2, <2>4, LastReviewNow DEF SerialInvariant
  <2>6. requests'[n].status = outcome /\ requests'[n].document = document
    BY <1>1, <2>2, <2>4, <2>5 DEF Requests
  <2>7. Len(requests') = n /\ requests' # <<>>
    <3>1. requests \in Seq(Requests) /\ requests' \in Seq(Requests)
      BY DEF SerialInvariant, OverlapInvariant, Typing
    <3>2. DOMAIN requests' = DOMAIN requests
      BY <1>1
    <3>3. /\ DOMAIN requests = 1..Len(requests) /\ DOMAIN requests' = 1..Len(requests')
          /\ Len(requests) \in Nat /\ Len(requests') \in Nat
      BY <3>1, LenProperties
    <3>4. Len(requests') = n
      BY <2>4, <3>2, <3>3
    <3> QED
      BY <2>5, <3>2, <3>4
  <2>8. LastReview' = [status |-> outcome, document |-> document]
    BY <2>6, <2>7 DEF LastReview, Newest
  <2> QED
    BY <1>1, <2>1, <2>3, <2>8 DEF SerialStep, Serial!Next, Serial!Judge
<1>2. CASE Abort(x) \/ (Advances(x) /\ Finds(x))
  BY <1>2, StatementIsSerial
<1>3. CASE /\ Advances(x) /\ calling[x] = "verdict"
           /\ position[x] = 1 \/ (position[x] = 2 /\ target[x] \in PendingAt)
  <2>1. Finds(x)
    BY <1>3 DEF Finds, At
  <2> QED
    BY <1>2, <1>3, <2>1
<1> QED
  <2>1. \/ /\ Commits(x, "verdict")
           /\ \E outcome \in {"passed", "failed"} :
                /\ validation' = outcome
                /\ requests' = [requests EXCEPT ![target[x]].status = outcome, ![target[x]].time = x]
           /\ UNCHANGED <<lifecycle, boundTo, document, recorded>>
        \/ Abort(x)
        \/ /\ Advances(x) /\ calling[x] = "verdict"
           /\ position[x] = 1 \/ (position[x] = 2 /\ target[x] \in PendingAt)
    BY DEF RecordVerdict, Executes, Advances, RequestIsPending
  <2> QED
    BY <1>1, <1>2, <1>3, <2>1

LEMMA AbandonIsSerial ==
    ASSUME SerialInvariant, OverlapInvariant', NEW x \in Txn, AbandonReview(x)
    PROVE  SerialInvariant' /\ SerialStep
<1>0. "abandon" \in DOMAIN Script /\ "abandon" \in StateWriters
  BY ScriptFacts DEF StateWriters
<1>1. CASE /\ Commits(x, "abandon") /\ requests' = SupersededBy(x)
           /\ UNCHANGED <<lifecycle, boundTo, validation, document, recorded>>
  <2>1. SerialInvariant'
    BY <1>0, <1>1, WriterFinds
  <2>2. PendingAt # {} /\ lifecycle = "open" /\ lock["request"] = x
    <3>1. Behind(x, "abandon", 3) /\ Behind(x, "abandon", 4)
      BY <1>0, <1>1, CommitIsBehind
    <3> QED
      BY <3>1 DEF SerialInvariant, Found, FoundOfState, FoundOfTask, AbandonedIsLocked
  <2>3. Serial!Void
    BY <1>1, <2>2, SupersedingIsSerial DEF SerialInvariant
  <2> QED
    BY <1>1, <2>1, <2>2, <2>3 DEF SerialStep, Serial!Next, Serial!Drop
<1>2. CASE Abort(x) \/ (Advances(x) /\ Finds(x))
  BY <1>2, StatementIsSerial
<1>3. CASE /\ Advances(x) /\ calling[x] = "abandon"
           /\ \/ position[x] = 1 \/ position[x] = 2
              \/ position[x] = 3 /\ target[x] \in PendingAt
              \/ position[x] = 4 /\ lifecycle = "open"
  <2>1. Finds(x)
    BY <1>3 DEF Finds, At
  <2> QED
    BY <1>2, <1>3, <2>1
<1> QED
  <2>1. \/ /\ Commits(x, "abandon") /\ requests' = SupersededBy(x)
           /\ UNCHANGED <<lifecycle, boundTo, validation, document, recorded>>
        \/ Abort(x)
        \/ /\ Advances(x) /\ calling[x] = "abandon"
           /\ \/ position[x] = 1 \/ position[x] = 2
              \/ position[x] = 3 /\ target[x] \in PendingAt
              \/ position[x] = 4 /\ lifecycle = "open"
    BY DEF AbandonReview, Executes, Advances, RequestIsPending
  <2> QED
    BY <1>1, <1>2, <1>3, <2>1

\* A checkpoint and a decision write the document.
LEMMA WriteIsSerial ==
    ASSUME SerialInvariant, OverlapInvariant', NEW x \in Txn, UpdateState(x) \/ Decide(x)
    PROVE  SerialInvariant' /\ SerialStep
<1>0. {"update", "decide"} \subseteq DOMAIN Script /\ {"update", "decide"} \subseteq StateWriters
  BY ScriptFacts DEF StateWriters
<1>1. ASSUME NEW k \in {"update", "decide"}, Commits(x, k), document' = document + 1,
             validation' = "pending", UNCHANGED <<lifecycle, boundTo, requests, recorded>>
      PROVE  SerialInvariant' /\ SerialStep
  <2>1. SerialInvariant'
    BY <1>0, <1>1, WriterFinds
  <2>2. validation # "passed" /\ (lifecycle = "open" \/ PendingAt = {})
    <3>1. Behind(x, k, 1) /\ Behind(x, k, 2)
      BY <1>0, <1>1, CommitIsBehind
    <3> QED
      BY <3>1 DEF SerialInvariant, Found, FoundOfState, FoundOfTask
  <2>3. PendingAt = {} => LastReview.status # "pending"
    BY LastReviewNow DEF SerialInvariant
  <2>4. LastReview' = LastReview
    BY <1>1 DEF LastReview
  <2> QED
    BY <1>1, <2>1, <2>2, <2>3, <2>4 DEF SerialStep, Serial!Next, Serial!Write
<1>2. CASE Abort(x) \/ (Advances(x) /\ Finds(x))
  BY <1>2, StatementIsSerial
<1>3. CASE /\ Advances(x) /\ calling[x] = "update"
           /\ (position[x] = 1 /\ validation # "passed" /\ PendingAt = {}) \/ position[x] = 2
  <2>1. Finds(x)
    BY <1>3 DEF Finds, At
  <2> QED
    BY <1>2, <1>3, <2>1
<1>4. CASE /\ Advances(x) /\ calling[x] = "decide"
           /\ \/ position[x] = 1 /\ lifecycle = "open"
              \/ position[x] = 2 /\ validation # "passed"
  <2>1. Finds(x)
    BY <1>4 DEF Finds, At
  <2> QED
    BY <1>2, <1>4, <2>1
<1>5. CASE UpdateState(x)
  <2>1. \/ /\ Commits(x, "update") /\ document' = document + 1 /\ validation' = "pending"
           /\ UNCHANGED <<lifecycle, boundTo, requests, recorded>>
        \/ Abort(x)
        \/ /\ Advances(x) /\ calling[x] = "update"
           /\ (position[x] = 1 /\ validation # "passed" /\ PendingAt = {}) \/ position[x] = 2
    BY <1>5 DEF UpdateState, Executes, Advances
  <2> QED
    BY <1>1, <1>2, <1>3, <2>1
<1>6. CASE Decide(x)
  <2>1. \/ /\ Commits(x, "decide") /\ document' = document + 1 /\ validation' = "pending"
           /\ UNCHANGED <<lifecycle, boundTo, requests, recorded>>
        \/ Abort(x)
        \/ /\ Advances(x) /\ calling[x] = "decide"
           /\ \/ position[x] = 1 /\ lifecycle = "open"
              \/ position[x] = 2 /\ validation # "passed"
    BY <1>6 DEF Decide, Executes, Advances
  <2> QED
    BY <1>1, <1>2, <1>4, <2>1
<1> QED
  BY <1>5, <1>6

LEMMA ReopenIsSerial ==
    ASSUME SerialInvariant, OverlapInvariant', NEW x \in Txn, InvalidateReview(x)
    PROVE  SerialInvariant' /\ SerialStep
<1>0. "invalidate" \in DOMAIN Script /\ "invalidate" \in StateWriters
  BY ScriptFacts DEF StateWriters
<1>1. CASE /\ Commits(x, "invalidate") /\ validation' = "pending"
           /\ UNCHANGED <<lifecycle, boundTo, document, requests, recorded>>
  <2>1. SerialInvariant'
    BY <1>0, <1>1, WriterFinds
  <2>2. lifecycle = "open" /\ validation = "passed"
    <3>1. Behind(x, "invalidate", 1) /\ Behind(x, "invalidate", 2)
      BY <1>0, <1>1, CommitIsBehind
    <3> QED
      BY <3>1 DEF SerialInvariant, Found, FoundOfState, FoundOfTask
  <2>3. LastReview' = LastReview
    BY <1>1 DEF LastReview
  <2> QED
    BY <1>1, <2>1, <2>2, <2>3 DEF SerialStep, Serial!Next, Serial!Reopen
<1>2. CASE Abort(x) \/ (Advances(x) /\ Finds(x))
  BY <1>2, StatementIsSerial
<1>3. CASE /\ Advances(x) /\ calling[x] = "invalidate"
           /\ \/ position[x] = 1 /\ lifecycle = "open"
              \/ position[x] = 2 /\ validation = "passed"
  <2>1. Finds(x)
    BY <1>3 DEF Finds, At
  <2> QED
    BY <1>2, <1>3, <2>1
<1> QED
  <2>1. \/ /\ Commits(x, "invalidate") /\ validation' = "pending"
           /\ UNCHANGED <<lifecycle, boundTo, document, requests, recorded>>
        \/ Abort(x)
        \/ /\ Advances(x) /\ calling[x] = "invalidate"
           /\ \/ position[x] = 1 /\ lifecycle = "open"
              \/ position[x] = 2 /\ validation = "passed"
    BY DEF InvalidateReview, Executes, Advances
  <2> QED
    BY <1>1, <1>2, <1>3, <2>1

LEMMA CancelIsSerial ==
    ASSUME SerialInvariant, OverlapInvariant', NEW x \in Txn, CancelTask(x)
    PROVE  SerialInvariant' /\ SerialStep
<1>0. "cancel" \in DOMAIN Script /\ "cancel" \in StateWriters
  BY ScriptFacts DEF StateWriters
<1>1. CASE /\ Commits(x, "cancel") /\ lifecycle' = "cancelled" /\ validation' = "pending"
           /\ requests' = SupersededBy(x)
           /\ UNCHANGED <<document, recorded>>
  <2>1. SerialInvariant'
    BY <1>0, <1>1, WriterFinds
  <2>2. lifecycle = "open" /\ validation # "passed"
    <3>1. Behind(x, "cancel", 1) /\ Behind(x, "cancel", 3)
      BY <1>0, <1>1, CommitIsBehind
    <3> QED
      BY <3>1 DEF SerialInvariant, Found, FoundOfState, FoundOfTask
  <2>3. Serial!Void \/ LastReview' = LastReview
    BY <1>1, SupersedingIsSerial DEF SerialInvariant
  <2> QED
    BY <1>1, <2>1, <2>2, <2>3 DEF SerialStep, Serial!Next, Serial!Cancel
<1>2. CASE Abort(x) \/ (Advances(x) /\ Finds(x))
  BY <1>2, StatementIsSerial
<1>3. CASE /\ Advances(x) /\ calling[x] = "cancel"
           /\ \/ position[x] = 1 /\ lifecycle = "open"
              \/ position[x] = 2
              \/ position[x] = 3 /\ validation # "passed"
  <2>1. Finds(x)
    BY <1>3 DEF Finds, At
  <2> QED
    BY <1>2, <1>3, <2>1
<1> QED
  <2>1. \/ /\ Commits(x, "cancel") /\ lifecycle' = "cancelled" /\ validation' = "pending"
           /\ requests' = SupersededBy(x)
           /\ UNCHANGED <<document, recorded>>
        \/ Abort(x)
        \/ /\ Advances(x) /\ calling[x] = "cancel"
           /\ \/ position[x] = 1 /\ lifecycle = "open"
              \/ position[x] = 2
              \/ position[x] = 3 /\ validation # "passed"
    BY DEF CancelTask, Executes, Advances
  <2> QED
    BY <1>1, <1>2, <1>3, <2>1

\* A task is completed on the pass that its lock keeps: the last review, of the document.
LEMMA CompleteIsSerial ==
    ASSUME SerialInvariant, OverlapInvariant', NEW x \in Txn, CompleteTask(x)
    PROVE  SerialInvariant' /\ SerialStep
<1>0. "complete" \in DOMAIN Script
  BY ScriptFacts
<1>1. CASE /\ Commits(x, "complete") /\ lifecycle' = "completed"
           /\ UNCHANGED <<validation, document, requests, recorded>>
  <2>1. Behind(x, "complete", 2) /\ Behind(x, "complete", 3) /\ Finish(x)
    BY <1>0, <1>1, CommitIsBehind
  <2>2. SerialInvariant'
    <3>1. lock["task"] = x
      BY <2>1, BehindIsHeld DEF SerialInvariant
    <3> QED
      BY <1>1, <2>1, <3>1, FinishFinds
  <2>3. validation = "passed" /\ Current
    BY <2>1 DEF SerialInvariant, Found, FoundOfState, OverlapInvariant, PassSurvivesOverlap
  <2>4. LastReview = [status |-> "passed", document |-> document] /\ LastReview' = LastReview
    BY <1>1, <2>3 DEF Current, LastReview
  <2> QED
    BY <1>1, <2>2, <2>3, <2>4 DEF SerialStep, Serial!Next, Serial!Complete
<1>2. CASE Abort(x) \/ (Advances(x) /\ Finds(x))
  BY <1>2, StatementIsSerial
<1>3. CASE /\ Advances(x) /\ calling[x] = "complete"
           /\ position[x] = 1 \/ (position[x] = 2 /\ validation = "passed") \/ position[x] = 3
  <2>1. Finds(x)
    BY <1>3 DEF Finds, At
  <2> QED
    BY <1>2, <1>3, <2>1
<1> QED
  <2>1. \/ /\ Commits(x, "complete") /\ lifecycle' = "completed"
           /\ UNCHANGED <<validation, document, requests, recorded>>
        \/ Abort(x)
        \/ /\ Advances(x) /\ calling[x] = "complete"
           /\ position[x] = 1 \/ (position[x] = 2 /\ validation = "passed") \/ position[x] = 3
    BY DEF CompleteTask, Executes, Advances
  <2> QED
    BY <1>1, <1>2, <1>3, <2>1

LEMMA SerialNext ==
    SerialInvariant /\ [GovernanceNext]_governanceVars
        => SerialInvariant' /\ [Serial!Next]_(Serial!vars)
<1> SUFFICES ASSUME SerialInvariant, [GovernanceNext]_governanceVars PROVE SerialInvariant' /\ SerialStep
  BY DEF SerialStep
<1>1. OverlapInvariant'
  BY OverlapNext DEF SerialInvariant
<1>2. CASE UNCHANGED governanceVars
  <2>1. UNCHANGED <<rowsOfTask, calling, target, position, lock>>
    BY <1>2 DEF governanceVars, txnVars
  <2>2. \A y \in Txn : Found(y)'
    BY <2>1, FoundStays DEF SerialInvariant
  <2> QED
    BY <1>1, <2>1, <2>2, NothingIsSeen DEF SerialInvariant, rowsOfTask
<1>3. ASSUME NEW x \in Txn, NEW k \in MayCall, StartTxn(x, k) PROVE SerialInvariant' /\ SerialStep
  <2>1. /\ UNCHANGED <<rowsOfTask, lock>> /\ calling[x] = "none"
        /\ calling' = [calling EXCEPT ![x] = k]
        /\ position' = [position EXCEPT ![x] = 1]
        /\ target' = [target EXCEPT ![x] = Len(requests)]
    BY <1>3 DEF StartTxn
  <2>2. ASSUME NEW y \in Txn, y # x PROVE Found(y)'
    <3>1. calling'[y] = calling[y] /\ position'[y] = position[y] /\ target'[y] = target[y]
      BY <2>1, <2>2
    <3>2. Found(y)
      BY DEF SerialInvariant
    <3> QED
      BY <2>1, <3>1, <3>2 DEF Found, FoundOfState, FoundOfTask, AbandonedIsLocked, Behind, PendingAt, rowsOfTask
  <2>3. Found(x)'
    <3>1. position'[x] = 1
      BY <2>1 DEF SerialInvariant, OverlapInvariant, Typing
    <3> QED
      BY <3>1 DEF Found, FoundOfState, FoundOfTask, AbandonedIsLocked, Behind
  <2> QED
    BY <1>1, <2>1, <2>2, <2>3, NothingIsSeen DEF SerialInvariant, rowsOfTask
<1>4. ASSUME NEW x \in Txn, DeadlockDetected(x) \/ (x \in Live /\ Abort(x)) PROVE SerialInvariant' /\ SerialStep
  <2>1. Finish(x) /\ UNCHANGED rowsOfTask
    BY <1>4 DEF DeadlockDetected, Abort
  <2> QED
    BY <1>1, <2>1, FinishFinds, NothingIsSeen DEF rowsOfTask
<1> QED
  BY <1>1, <1>2, <1>3, <1>4, RecordIsSerial, PrepareIsSerial, VerdictIsSerial, AbandonIsSerial, WriteIsSerial,
     ReopenIsSerial, CancelIsSerial, CompleteIsSerial DEF GovernanceNext

LEMMA SerialStart == GovernanceInit => Serial!Init
<1> SUFFICES ASSUME GovernanceInit PROVE Serial!Init
  OBVIOUS
<1>1. CASE requests = <<>>
  BY <1>1 DEF GovernanceInit, LastReview, Serial!Init, Serial!NoReview
<1>2. CASE requests = <<[status |-> "pending", document |-> 0, time |-> 0]>>
  <2>1. Len(requests) = 1 /\ requests[1].status = "pending" /\ requests[1].document = 0 /\ requests # <<>>
    BY <1>2
  <2>2. LastReview = [status |-> "pending", document |-> 0]
    BY <2>1 DEF LastReview, Newest
  <2> QED
    BY <2>2 DEF GovernanceInit, Serial!Init
<1> QED
  BY <1>1, <1>2 DEF GovernanceInit

\* Overlapping calls are calls made one after the other: what commits is what the
\* serial task may do.
THEOREM OverlappingCallsAreSerial == GovernanceSpec => IsReviewedTask
<1> QED
  BY SerialInit, SerialStart, SerialNext, PTL DEF GovernanceSpec, IsReviewedTask, Serial!Spec
=============================================================================
