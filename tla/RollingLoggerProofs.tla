------------------------- MODULE RollingLoggerProofs -------------------------
(***************************************************************************)
(* Theorems about the synchronous logger, for any set of paths, any number *)
(* of rolled files, of records and of restarts.                            *)
(***************************************************************************)
EXTENDS RollingLogger, TLAPS

(***************************************************************************)
(* The inductive invariant. A call of flush() has a path to work on        *)
(* (Targets). What waits in the stream of a file waits in the stream in    *)
(* use, and once flush() has measured the file to roll it, not even there  *)
(* (Waiting): that is why neither a change of the path nor a roll leaves a *)
(* record behind.                                                          *)
(***************************************************************************)
Targets ==
  /\ pc = "down" => path = NoPath
  /\ pc = "path" => path # NoPath
  /\ pc \in {"roll", "reopen"} => target \in Path
  /\ pc = "roll" => path \in {target, NoPath}

Waiting ==
  \A p \in Path : buf[p] # <<>> =>
    \/ p \in Console
    \/ p = path /\ (pc \in {"path", "roll", "flush"} \/ (pc = "idle" /\ threw))

Base == TypeOK /\ Targets /\ Waiting

-----------------------------------------------------------------------------
LEMMA NextIndexType == idx \in Index => NextIndex \in Index
BY RollingAssumption DEF Index, NextIndex

LEMMA DrainedType ==
  ASSUME TypeOK, NEW ps, Drained(ps)
  PROVE  /\ live' \in [Path -> Seq(1..MaxRecords)]
         /\ buf' \in [Path -> Seq(1..MaxRecords)]
<1> DEFINE S == Seq(1..MaxRecords)
<1>1. <<>> \in S
  OBVIOUS
<1>2. \A s, t \in S : s \o t \in S
  OBVIOUS
<1>3. live \in [Path -> S] /\ buf \in [Path -> S]
  BY DEF TypeOK
<1> HIDE DEF S
<1>4. live' \in [Path -> S] /\ buf' \in [Path -> S]
  BY <1>1, <1>2, <1>3 DEF Drained
<1> QED  BY <1>4 DEF S

LEMMA OpenDestType ==
  ASSUME TypeOK, NEW p \in Path, OpenDest(p)
  PROVE  path' \in Path \cup {NoPath} /\ present' \subseteq Path
BY DEF TypeOK, OpenDest

LEMMA IndexMovesType ==
  ASSUME TypeOK, NEW ps, IndexMoves(ps)
  PROVE  inTurn' \in [Path -> BOOLEAN]
BY DEF TypeOK, IndexMoves

LEMMA ElementsOf ==
  ASSUME NEW S, NEW s \in Seq(S)
  PROVE  ToSet(s) \subseteq S
BY DEF ToSet

-----------------------------------------------------------------------------
(* A step that moves nothing but what waits: the buffers in ps go to their *)
(* files, and the rest of the types is as it was.                          *)
LEMMA DrainedWaits ==
  ASSUME TypeOK, NEW ps, Drained(ps), NEW p \in Path, buf'[p] # <<>>
  PROVE  p \notin ps /\ buf[p] # <<>>
BY DEF TypeOK, Drained

-----------------------------------------------------------------------------
LEMMA InitBase == Init => Base
<1> SUFFICES ASSUME Init PROVE Base
  OBVIOUS
<1>1. /\ buf \in [Path -> Seq(1..MaxRecords)]
      /\ live \in [Path -> Seq(1..MaxRecords)]
      /\ rolled \in [Path -> [Index -> Seq(1..MaxRecords)]]
  BY DEF Init
<1>2. TypeOK
  <2>1. inTurn \in [Path -> BOOLEAN] /\ threw \in BOOLEAN
    BY DEF Init
  <2>2. erased \in [Path -> SUBSET (1..MaxRecords)]
    BY DEF Init
  <2>3. idx \in Index /\ count \in 0..MaxRecords /\ starts \in 0..MaxRestarts + 1
    BY RollingAssumption DEF Init, Index
  <2> QED  BY <1>1, <2>1, <2>2, <2>3 DEF Init, TypeOK
<1>3. Targets /\ Waiting
  BY DEF Init, Targets, Waiting
<1> QED  BY <1>2, <1>3 DEF Base

LEMMA NextBase == Base /\ [Next]_vars => Base'
<1> SUFFICES ASSUME Base, [Next]_vars PROVE Base'
  OBVIOUS
<1> USE RollingAssumption
<1>0. TypeOK /\ Targets /\ Waiting
  BY DEF Base
<1>1. CASE Construct
  <2>1. starts' \in 0..MaxRestarts + 1 /\ idx' \in Index
    BY <1>0, <1>1 DEF Construct, TypeOK, Index
  <2>2. path' \in Path \cup {NoPath} /\ present' \subseteq Path
    BY <1>0, <1>1, OpenDestType DEF Construct
  <2>3. inTurn' \in [Path -> BOOLEAN]
    BY <1>0, <1>1, IndexMovesType DEF Construct
  <2>4. TypeOK'
    BY <1>0, <1>1, <2>1, <2>2, <2>3 DEF Construct, TypeOK, Index
  <2>5. Targets' /\ Waiting'
    BY <1>0, <1>1 DEF Construct, Targets, Waiting
  <2> QED  BY <2>4, <2>5 DEF Base
<1>2. CASE Commit
  <2>1. count + 1 \in 1..MaxRecords /\ path \in Path
    BY <1>0, <1>2 DEF Commit, TypeOK
  <2>2. Append(buf[path], count + 1) \in Seq(1..MaxRecords)
    BY <1>0, <2>1 DEF TypeOK
  <2>3. buf' \in [Path -> Seq(1..MaxRecords)]
    BY <1>0, <1>2, <2>1, <2>2 DEF Commit, TypeOK
  <2>4. TypeOK'
    BY <1>0, <1>2, <2>1, <2>3 DEF Commit, TypeOK, destVars, Index
  <2>5. Targets' /\ Waiting'
    BY <1>0, <1>2, <2>1 DEF Commit, TypeOK, Targets, Waiting, destVars
  <2> QED  BY <2>4, <2>5 DEF Base
<1>3. CASE CommitEmpty \/ SamePath
  <2>1. TypeOK'
    BY <1>0, <1>3 DEF CommitEmpty, SamePath, TypeOK, Index, destVars, fileVars, histVars
  <2>2. Targets' /\ Waiting'
    BY <1>0, <1>3 DEF CommitEmpty, SamePath, TypeOK, Targets, Waiting, destVars, fileVars, histVars
  <2> QED  BY <2>1, <2>2 DEF Base
<1>4. CASE NewPath
  <2>1. PICK p \in Path \ {path} : target' = p /\ OpenDest(p)
    BY <1>4 DEF NewPath
  <2>2. path' \in Path \cup {NoPath} /\ present' \subseteq Path
    BY <1>0, <2>1, OpenDestType
  <2>3. /\ live' \in [Path -> Seq(1..MaxRecords)]
        /\ buf' \in [Path -> Seq(1..MaxRecords)]
    BY <1>0, <1>4, DrainedType DEF NewPath
  <2>4. TypeOK'
    BY <1>0, <1>4, <2>1, <2>2, <2>3 DEF NewPath, TypeOK, Index, histVars
  <2>5. Targets'
    BY <1>0, <1>4, <2>1 DEF NewPath, Targets, OpenDest
  <2>6. Waiting'
    <3> SUFFICES ASSUME NEW q \in Path, buf'[q] # <<>> PROVE q \in Console
      BY DEF Waiting
    <3>1. q \notin Closing /\ buf[q] # <<>>
      BY <1>0, <1>4, DrainedWaits DEF NewPath
    <3> QED  BY <1>0, <3>1 DEF Waiting, Closing
  <2> QED  BY <2>4, <2>5, <2>6 DEF Base
<1>5. CASE NoRoll
  <2>1. /\ live' \in [Path -> Seq(1..MaxRecords)]
        /\ buf' \in [Path -> Seq(1..MaxRecords)]
    BY <1>0, <1>5, DrainedType DEF NoRoll
  <2>2. TypeOK'
    BY <1>0, <1>5, <2>1 DEF NoRoll, TypeOK, Index, destVars, histVars
  <2>3. \A q \in Path : buf'[q] # <<>> => buf[q] # <<>>
    BY <1>0, <1>5, DrainedWaits DEF NoRoll
  <2>4. Targets' /\ Waiting'
    BY <1>0, <1>5, <2>3 DEF NoRoll, Targets, Waiting, destVars
  <2> QED  BY <2>2, <2>4 DEF Base
<1>6. CASE Rename
  <2> DEFINE now == IF path = target THEN live[target] \o buf[target]
                    ELSE live[target]
  <2>1. target \in Path /\ idx' \in Index
    BY <1>0, <1>6, NextIndexType DEF Rename, TypeOK, Targets
  <2>2. now \in Seq(1..MaxRecords) /\ <<>> \in Seq(1..MaxRecords)
    <3>1. live[target] \in Seq(1..MaxRecords) /\ buf[target] \in Seq(1..MaxRecords)
      BY <1>0, <2>1 DEF TypeOK
    <3>2. live[target] \o buf[target] \in Seq(1..MaxRecords)
      BY <3>1
    <3>3. <<>> \in Seq(1..MaxRecords)
      OBVIOUS
    <3>4. CASE path = target
      BY <3>2, <3>3, <3>4, Zenon
    <3>5. CASE path # target
      BY <3>1, <3>3, <3>5, Zenon
    <3> QED  BY <3>4, <3>5
  <2>3. rolled' = [rolled EXCEPT ![target][idx'] = now]
    BY <1>6 DEF Rename
  <2> HIDE DEF now
  <2>4. rolled' \in [Path -> [Index -> Seq(1..MaxRecords)]]
    BY <1>0, <2>1, <2>2, <2>3 DEF TypeOK
  <2>5. /\ buf' \in [Path -> Seq(1..MaxRecords)]
        /\ live' \in [Path -> Seq(1..MaxRecords)]
    BY <1>0, <1>6, <2>1, <2>2 DEF Rename, TypeOK
  <2>6. ToSet(rolled[target][idx']) \subseteq 1..MaxRecords
    BY <1>0, <2>1, ElementsOf DEF TypeOK
  <2>7. erased' \in [Path -> SUBSET (1..MaxRecords)]
    BY <1>0, <1>6, <2>1, <2>6 DEF Rename, TypeOK
  <2>8. inTurn' \in [Path -> BOOLEAN]
    BY <1>0, <1>6, IndexMovesType DEF Rename
  <2>9. TypeOK'
    BY <1>0, <1>6, <2>1, <2>4, <2>5, <2>7, <2>8 DEF Rename, TypeOK, Index
  <2>10. Targets' /\ Waiting'
    BY <1>0, <1>6, <2>1 DEF Rename, Targets, Waiting
  <2> QED  BY <2>9, <2>10 DEF Base
<1>7. CASE RenameFails
  <2>1. idx' \in Index /\ inTurn' \in [Path -> BOOLEAN]
    BY <1>0, <1>7, NextIndexType, IndexMovesType DEF RenameFails, TypeOK
  <2>2. /\ live' \in [Path -> Seq(1..MaxRecords)]
        /\ buf' \in [Path -> Seq(1..MaxRecords)]
    BY <1>0, <1>7, DrainedType DEF RenameFails
  <2>3. TypeOK'
    BY <1>0, <1>7, <2>1, <2>2 DEF RenameFails, TypeOK, Index
  <2>4. Targets'
    BY <1>0, <1>7 DEF RenameFails, Targets
  <2>5. Waiting'
    <3> SUFFICES ASSUME NEW q \in Path, buf'[q] # <<>> PROVE q \in Console
      BY DEF Waiting
    <3>1. q \notin {path} \ {NoPath} /\ buf[q] # <<>>
      BY <1>0, <1>7, DrainedWaits DEF RenameFails
    <3> QED  BY <1>0, <3>1 DEF Waiting
  <2> QED  BY <2>3, <2>4, <2>5 DEF Base
<1>8. CASE Reopen
  <2>1. path' \in Path \cup {NoPath} /\ present' \subseteq Path
    BY <1>0, <1>8, OpenDestType DEF Reopen, Targets
  <2>2. TypeOK'
    BY <1>0, <1>8, <2>1 DEF Reopen, TypeOK, Index, histVars
  <2>3. Targets' /\ Waiting'
    BY <1>0, <1>8 DEF Reopen, Targets, Waiting
  <2> QED  BY <2>2, <2>3 DEF Base
<1>9. CASE Flush
  <2>1. /\ live' \in [Path -> Seq(1..MaxRecords)]
        /\ buf' \in [Path -> Seq(1..MaxRecords)]
    BY <1>0, <1>9, DrainedType DEF Flush
  <2>2. TypeOK'
    BY <1>0, <1>9, <2>1 DEF Flush, TypeOK, Index, destVars, histVars
  <2>3. Targets'
    BY <1>0, <1>9 DEF Flush, Targets, destVars
  <2>4. Waiting'
    <3> SUFFICES ASSUME NEW q \in Path, buf'[q] # <<>> PROVE q \in Console
      BY DEF Waiting
    <3>1. q # path /\ buf[q] # <<>>
      BY <1>0, <1>9, DrainedWaits DEF Flush
    <3> QED  BY <1>0, <3>1 DEF Waiting
  <2> QED  BY <2>2, <2>3, <2>4 DEF Base
<1>10. CASE Deinit
  <2>1. /\ live' \in [Path -> Seq(1..MaxRecords)]
        /\ buf' \in [Path -> Seq(1..MaxRecords)]
    BY <1>0, <1>10, DrainedType DEF Deinit
  <2>2. TypeOK'
    BY <1>0, <1>10, <2>1 DEF Deinit, TypeOK, Index, histVars
  <2>3. Targets'
    BY <1>0, <1>10 DEF Deinit, Targets
  <2>4. Waiting'
    <3> SUFFICES ASSUME NEW q \in Path, buf'[q] # <<>> PROVE q \in Console
      BY DEF Waiting
    <3>1. q \notin Closing /\ buf[q] # <<>>
      BY <1>0, <1>10, DrainedWaits DEF Deinit
    <3> QED  BY <1>0, <1>10, <3>1 DEF Waiting, Closing, Deinit
  <2> QED  BY <2>2, <2>3, <2>4 DEF Base
<1>11. CASE Crash
  <2>1. PICK spilled \in SUBSET {p \in Path : buf[p] # <<>>} :
          /\ live' = [p \in Path |-> IF p \in spilled THEN live[p] \o buf[p]
                                     ELSE live[p]]
          /\ lost' = lost \cup UNION {ToSet(buf[p]) : p \in Path \ spilled}
    BY <1>11 DEF Crash
  <2>2. /\ \A p \in Path : live[p] \o buf[p] \in Seq(1..MaxRecords)
        /\ <<>> \in Seq(1..MaxRecords)
    BY <1>0 DEF TypeOK
  <2>3. live' \in [Path -> Seq(1..MaxRecords)]
    BY <1>0, <2>1, <2>2 DEF TypeOK
  <2>4. \A p \in Path : ToSet(buf[p]) \subseteq 1..MaxRecords
    BY <1>0, ElementsOf DEF TypeOK
  <2>5. lost' \subseteq 1..MaxRecords
    <3>1. lost \subseteq 1..MaxRecords
      BY <1>0 DEF TypeOK
    <3>2. UNION {ToSet(buf[p]) : p \in Path \ spilled} \subseteq 1..MaxRecords
      BY <2>4, Zenon
    <3> QED  BY <2>1, <3>1, <3>2
  <2>6. buf' \in [Path -> Seq(1..MaxRecords)]
    BY <1>11, <2>2 DEF Crash
  <2>7. TypeOK'
    BY <1>0, <1>11, <2>3, <2>5, <2>6 DEF Crash, TypeOK, Index
  <2>8. Targets' /\ Waiting'
    BY <1>0, <1>11 DEF Crash, Targets, Waiting
  <2> QED  BY <2>7, <2>8 DEF Base
<1>12. CASE PathHookThrows
  BY <1>0, <1>12 DEF PathHookThrows, Base, TypeOK, Targets, Waiting, Index,
                     destVars, fileVars
<1>13. CASE RollHookThrows
  <2>1. /\ live' \in [Path -> Seq(1..MaxRecords)]
        /\ buf' \in [Path -> Seq(1..MaxRecords)]
    BY <1>0, <1>13, DrainedType DEF RollHookThrows
  <2>2. TypeOK'
    BY <1>0, <1>13, <2>1 DEF RollHookThrows, TypeOK, Index
  <2>3. \A q \in Path : buf'[q] # <<>> => buf[q] # <<>>
    BY <1>0, <1>13, DrainedWaits DEF RollHookThrows
  <2>4. Targets' /\ Waiting'
    BY <1>0, <1>13, <2>3 DEF RollHookThrows, Targets, Waiting
  <2> QED  BY <2>2, <2>4 DEF Base
<1>14. CASE UNCHANGED vars
  BY <1>0, <1>14 DEF Base, TypeOK, Targets, Waiting, Index, vars, destVars,
                     fileVars, histVars
<1> QED  BY <1>1, <1>2, <1>3, <1>4, <1>5, <1>6, <1>7, <1>8, <1>9, <1>10,
            <1>11, <1>12, <1>13, <1>14 DEF Next, FlushSteps

-----------------------------------------------------------------------------
(* Sequences of records.                                                   *)

LEMMA ToSetEmpty == ToSet(<<>>) = {}
BY DEF ToSet

LEMMA ToSetConcat ==
  ASSUME NEW S, NEW a \in Seq(S), NEW b \in Seq(S)
  PROVE  ToSet(a \o b) = ToSet(a) \cup ToSet(b)
<1>1. /\ a \o b \in Seq(S) /\ Len(a \o b) = Len(a) + Len(b)
      /\ Len(a) \in Nat /\ Len(b) \in Nat
      /\ \A i \in 1..Len(a) : (a \o b)[i] = a[i]
      /\ \A i \in 1..Len(b) : (a \o b)[Len(a) + i] = b[i]
  OBVIOUS
<1>2. ASSUME NEW x \in ToSet(a \o b) PROVE x \in ToSet(a) \cup ToSet(b)
  <2>1. PICK i \in 1..Len(a \o b) : x = (a \o b)[i]
    BY DEF ToSet
  <2>2. CASE i <= Len(a)
    BY <1>1, <2>1, <2>2 DEF ToSet
  <2>3. CASE i > Len(a)
    <3>1. i - Len(a) \in 1..Len(b) /\ Len(a) + (i - Len(a)) = i
      BY <1>1, <2>1, <2>3
    <3>2. x = b[i - Len(a)]
      BY <1>1, <2>1, <3>1
    <3> QED  BY <3>1, <3>2 DEF ToSet
  <2> QED  BY <1>1, <2>1, <2>2, <2>3
<1>3. ToSet(a) \subseteq ToSet(a \o b)
  BY <1>1 DEF ToSet
<1>4. ASSUME NEW x \in ToSet(b) PROVE x \in ToSet(a \o b)
  <2>1. PICK i \in 1..Len(b) : x = b[i]
    BY DEF ToSet
  <2>2. Len(a) + i \in 1..Len(a \o b) /\ (a \o b)[Len(a) + i] = x
    BY <1>1, <2>1
  <2> QED  BY <2>2 DEF ToSet
<1> QED  BY <1>2, <1>3, <1>4

LEMMA ToSetAppend ==
  ASSUME NEW S, NEW a \in Seq(S), NEW e \in S
  PROVE  ToSet(Append(a, e)) = ToSet(a) \cup {e}
<1>1. /\ Len(Append(a, e)) = Len(a) + 1 /\ Len(a) \in Nat
      /\ \A i \in 1..Len(a) : Append(a, e)[i] = a[i]
      /\ Append(a, e)[Len(a) + 1] = e
      /\ DOMAIN a = 1..Len(a) /\ DOMAIN Append(a, e) = 1..(Len(a) + 1)
  OBVIOUS
<1> QED  BY <1>1 DEF ToSet

LEMMA AscendsConcat ==
  ASSUME NEW S, NEW a \in Seq(S), NEW b \in Seq(S),
         Ascends(a), Ascends(b), Before(ToSet(a), ToSet(b))
  PROVE  Ascends(a \o b)
<1>1. /\ DOMAIN (a \o b) = 1..(Len(a) + Len(b))
      /\ DOMAIN a = 1..Len(a) /\ DOMAIN b = 1..Len(b)
      /\ Len(a) \in Nat /\ Len(b) \in Nat
      /\ \A i \in 1..Len(a) : (a \o b)[i] = a[i]
      /\ \A i \in 1..(Len(a) + Len(b)) : i > Len(a) =>
           i - Len(a) \in 1..Len(b) /\ (a \o b)[i] = b[i - Len(a)]
  OBVIOUS
<1> SUFFICES ASSUME NEW j \in 1..(Len(a) + Len(b)),
                    NEW k \in 1..(Len(a) + Len(b)), j < k
             PROVE  (a \o b)[j] < (a \o b)[k]
  BY <1>1 DEF Ascends
<1>2. CASE k <= Len(a)
  <2>1. j \in 1..Len(a) /\ k \in 1..Len(a)
    BY <1>1, <1>2
  <2> QED  BY <1>1, <2>1 DEF Ascends
<1>3. CASE j > Len(a)
  <2>1. j - Len(a) \in 1..Len(b) /\ k - Len(a) \in 1..Len(b)
        /\ j - Len(a) < k - Len(a)
    BY <1>1, <1>3
  <2>2. (a \o b)[j] = b[j - Len(a)] /\ (a \o b)[k] = b[k - Len(a)]
    BY <1>1, <1>3
  <2>3. b[j - Len(a)] < b[k - Len(a)]
    BY <1>1, <2>1 DEF Ascends
  <2> QED  BY <2>2, <2>3
<1>4. CASE j <= Len(a) /\ k > Len(a)
  <2>1. j \in DOMAIN a /\ k - Len(a) \in DOMAIN b
    BY <1>1, <1>4
  <2>2. a[j] \in ToSet(a) /\ b[k - Len(a)] \in ToSet(b)
    BY <1>1, <2>1 DEF ToSet
  <2> QED  BY <1>1, <1>4, <2>1, <2>2 DEF Before
<1>5. k <= Len(a) \/ j > Len(a) \/ (j <= Len(a) /\ k > Len(a))
  BY <1>1
<1> QED  BY <1>2, <1>3, <1>4, <1>5

LEMMA AscendsAppend ==
  ASSUME NEW S, NEW a \in Seq(S), NEW e \in S, Ascends(a), Before(ToSet(a), {e})
  PROVE  Ascends(Append(a, e))
<1>1. /\ DOMAIN Append(a, e) = 1..(Len(a) + 1) /\ Len(a) \in Nat
      /\ DOMAIN a = 1..Len(a)
      /\ \A i \in 1..Len(a) : Append(a, e)[i] = a[i]
      /\ Append(a, e)[Len(a) + 1] = e
  OBVIOUS
<1>2. \A i \in 1..Len(a) : a[i] < e
  BY DEF Before, ToSet
<1> QED  BY <1>1, <1>2 DEF Ascends

LEMMA AscendsOnce ==
  ASSUME NEW S \in SUBSET Nat, NEW a \in Seq(S), Ascends(a)
  PROVE  IsInjective(a)
<1>1. DOMAIN a = 1..Len(a) /\ Len(a) \in Nat /\ \A i \in 1..Len(a) : a[i] \in S
  OBVIOUS
<1> SUFFICES ASSUME NEW j \in DOMAIN a, NEW k \in DOMAIN a, a[j] = a[k], j # k
             PROVE  FALSE
  BY DEF IsInjective
<1>2. j \in 1..Len(a) /\ k \in 1..Len(a)
  BY <1>1
<1>4. a[j] \in S /\ a[k] \in S
  BY <1>1, <1>2
<1>5. /\ a[j] \in Nat /\ a[k] \in Nat
      /\ j \in Nat /\ k \in Nat
  <2>1. \A v \in S : v \in Nat
    OBVIOUS
  <2>2. a[j] \in Nat /\ a[k] \in Nat
    BY <1>4, <2>1
  <2>3. j \in Nat /\ k \in Nat
    BY <1>1, <1>2
  <2> QED  BY <2>2, <2>3
<1>3. j < k \/ k < j
  BY <1>5
<1> QED  BY <1>3, <1>5 DEF Ascends

-----------------------------------------------------------------------------
(***************************************************************************)
(* The records in each place of a path, and the parts of EachOnce and      *)
(* KeepsNewest that speak of them. Every file, and what waits for it after *)
(* it, ascends (Chronicle); what is known of a record, where it is or how  *)
(* it went, speaks of records that were committed (Known).                 *)
(***************************************************************************)
Contents == [p \in Path |-> [s \in Place |-> ToSet(Held(p, s))]]

Chronicle ==
  \A p \in Path :
    /\ Ascends(live[p]) /\ Ascends(buf[p])
    /\ Before(ToSet(live[p]), ToSet(buf[p]))
    /\ \A i \in Index : Ascends(rolled[p][i])

Known ==
  /\ \A p \in Path, s \in Place : Contents[p][s] \subseteq 1..count
  /\ lost \subseteq 1..count
  /\ \A p \in Path : erased[p] \subseteq 1..count

\* No record is in two of the places C, the records by path and place.
Apart(C) ==
  \A p, q \in Path, s, t \in Place :
    \A r \in C[p][s] : r \in C[q][t] => q = p /\ t = s

InOnePlace == Apart(Contents)

Gone(r) == r \in lost \/ \E p \in Path : r \in erased[p]

Somewhere(r) == \E p \in Path : \E s \in Place : r \in Contents[p][s]

InSomePlace == \A r \in 1..count : Somewhere(r) <=> ~Gone(r)

InTurnOrder ==
  \A p \in Path : inTurn[p] =>
    \A s \in Place :
      /\ Before(erased[p], Contents[p][s])
      /\ \A t \in Place :
           Turn(s) < Turn(t) => Before(Contents[p][s], Contents[p][t])

IInv ==
  Base /\ Chronicle /\ Known /\ InOnePlace /\ InSomePlace /\ InTurnOrder

LEMMA Places ==
  /\ Slots \in Place /\ Slots + 1 \in Place /\ Slots \notin Index
  /\ Slots + 1 \notin Index
  /\ Place = Index \cup {Slots, Slots + 1}
BY RollingAssumption DEF Place, Index

LEMMA ContentsAt ==
  ASSUME NEW p \in Path
  PROVE  /\ Contents[p][Slots] = ToSet(live[p])
         /\ Contents[p][Slots + 1] = ToSet(buf[p])
         /\ \A i \in Index : Contents[p][i] = ToSet(rolled[p][i])
<1>1. \A s \in Place : Contents[p][s] = ToSet(Held(p, s))
  BY DEF Contents
<1>2. /\ Held(p, Slots) = live[p] /\ Held(p, Slots + 1) = buf[p]
      /\ \A i \in Index : Held(p, i) = rolled[p][i]
  BY RollingAssumption DEF Held, Index
<1> QED  BY <1>1, <1>2, Places

\* The same, after a step.
LEMMA ContentsNext ==
  ASSUME NEW p \in Path
  PROVE  /\ Contents'[p][Slots] = ToSet(live'[p])
         /\ Contents'[p][Slots + 1] = ToSet(buf'[p])
         /\ \A i \in Index : Contents'[p][i] = ToSet(rolled'[p][i])
<1>1. \A s \in Place : Contents'[p][s] = ToSet(Held(p, s)')
  BY DEF Contents
<1>2. /\ Held(p, Slots)' = live'[p] /\ Held(p, Slots + 1)' = buf'[p]
      /\ \A i \in Index : Held(p, i)' = rolled'[p][i]
  BY RollingAssumption DEF Held, Index
<1> QED  BY <1>1, <1>2, Places

LEMMA ContentsSame == UNCHANGED fileVars => Contents' = Contents
BY DEF fileVars, Contents, Held

-----------------------------------------------------------------------------
(* Every step but a commit moves records from place to place: go[p][w] is  *)
(* where those in place w of path p are after it, NoPlace if they are      *)
(* nowhere. What a step does to InOnePlace, InSomePlace and InTurnOrder    *)
(* follows from its go alone.                                              *)
NoPlace == Slots + 2

Moved(C, D, go) ==
  \A p \in Path, s \in Place :
    \A r : r \in D[p][s] <=> \E w \in Place : go[p][w] = s /\ r \in C[p][w]

LEMMA MovedApart ==
  ASSUME NEW C, NEW D, NEW go, Moved(C, D, go), Apart(C)
  PROVE  Apart(D)
BY DEF Moved, Apart

LEMMA MovedSomewhere ==
  ASSUME NEW C, NEW D, NEW go, Moved(C, D, go), Apart(C), NEW r
  PROVE  (\E p \in Path, s \in Place : r \in D[p][s])
           <=> \E p \in Path, w \in Place : r \in C[p][w] /\ go[p][w] \in Place
BY DEF Moved, Apart

TurnAt(i, s) ==
  IF s >= Slots THEN s + 1 ELSE IF s > i THEN s - i ELSE s - i + Slots

Ordered(i, E, c) ==
  \A s \in Place :
    /\ Before(E, c[s])
    /\ \A t \in Place : TurnAt(i, s) < TurnAt(i, t) => Before(c[s], c[t])

\* A step keeps the order of a path whose records it moves in turn, and
\* whose erased ones it takes from the place that comes first.
LEMMA MovedOrdered ==
  ASSUME NEW C, NEW D, NEW go, Moved(C, D, go), NEW p \in Path,
         NEW i, NEW j, NEW E, NEW F, Ordered(i, E, C[p]),
         \A w, x \in Place :
           /\ go[p][w] \in Place /\ go[p][x] \in Place
           /\ C[p][w] # {} /\ C[p][x] # {}
           /\ TurnAt(j, go[p][w]) < TurnAt(j, go[p][x])
           => TurnAt(i, w) < TurnAt(i, x),
         \A r \in F : r \in E \/ \E w \in Place :
           /\ r \in C[p][w]
           /\ \A x \in Place : go[p][x] \in Place => TurnAt(i, w) < TurnAt(i, x)
  PROVE  Ordered(j, F, D[p])
<1>1. ASSUME NEW s \in Place, NEW r \in F, NEW q \in D[p][s]
      PROVE  r < q
  <2>1. PICK x \in Place : go[p][x] = s /\ q \in C[p][x]
    BY <1>1 DEF Moved
  <2> QED  BY <1>1, <2>1 DEF Ordered, Before
<1>2. ASSUME NEW s \in Place, NEW t \in Place, TurnAt(j, s) < TurnAt(j, t),
             NEW r \in D[p][s], NEW q \in D[p][t]
      PROVE  r < q
  <2>1. PICK w \in Place : go[p][w] = s /\ r \in C[p][w]
    BY <1>2 DEF Moved
  <2>2. PICK x \in Place : go[p][x] = t /\ q \in C[p][x]
    BY <1>2 DEF Moved
  <2>3. TurnAt(i, w) < TurnAt(i, x)
    BY <1>2, <2>1, <2>2
  <2> QED  BY <2>1, <2>2, <2>3 DEF Ordered, Before
<1> QED  BY <1>1, <1>2 DEF Ordered, Before

LEMMA TurnsOfPath ==
  ASSUME NEW p \in Path
  PROVE  (\A s \in Place :
            /\ Before(erased[p], Contents[p][s])
            /\ \A t \in Place :
                 Turn(s) < Turn(t) => Before(Contents[p][s], Contents[p][t]))
         <=> Ordered(idx, erased[p], Contents[p])
BY DEF Ordered, Turn, TurnAt

-----------------------------------------------------------------------------
(* A step that empties the buffers in ps into their files, and those in xs *)
(* besides into nothing.                                                   *)
Emptied(ps, xs) ==
  /\ live' = [p \in Path |-> IF p \in ps THEN live[p] \o buf[p] ELSE live[p]]
  /\ buf'  = [p \in Path |-> IF p \in ps \cup xs THEN <<>> ELSE buf[p]]

Emptying(ps, xs) ==
  [p \in Path |-> [w \in Place |->
     IF w # Slots + 1 \/ p \notin ps \cup xs THEN w
     ELSE IF p \in ps THEN Slots ELSE NoPlace]]

LEMMA DrainedEmptied == \A ps : Drained(ps) => Emptied(ps, {})
BY DEF Drained, Emptied

LEMMA StillEmptied == TypeOK /\ UNCHANGED <<live, buf>> => Emptied({}, {})
BY DEF TypeOK, Emptied

LEMMA EmptiedMoved ==
  ASSUME TypeOK, NEW ps, NEW xs, Emptied(ps, xs), UNCHANGED rolled
  PROVE  Moved(Contents, Contents', Emptying(ps, xs))
<1> DEFINE C == Contents
           D == Contents'
           go == Emptying(ps, xs)
<1> SUFFICES ASSUME NEW p \in Path, NEW s \in Place, NEW r
             PROVE  r \in D[p][s] <=> \E w \in Place : go[p][w] = s /\ r \in C[p][w]
  BY DEF Moved
<1>1. live[p] \in Seq(1..MaxRecords) /\ buf[p] \in Seq(1..MaxRecords)
  BY DEF TypeOK
<1>2. /\ p \in ps => live'[p] = live[p] \o buf[p]
      /\ p \notin ps => live'[p] = live[p]
      /\ p \in ps \cup xs => buf'[p] = <<>>
      /\ p \notin ps \cup xs => buf'[p] = buf[p]
  BY DEF Emptied
<1>3. ToSet(live[p] \o buf[p]) = ToSet(live[p]) \cup ToSet(buf[p]) /\ ToSet(<<>>) = {}
  BY <1>1, ToSetConcat, ToSetEmpty
<1>4. /\ C[p][Slots] = ToSet(live[p])
      /\ C[p][Slots + 1] = ToSet(buf[p])
      /\ \A i \in Index : C[p][i] = ToSet(rolled[p][i])
  BY ContentsAt
<1>5. /\ D[p][Slots] = ToSet(live'[p])
      /\ D[p][Slots + 1] = ToSet(buf'[p])
      /\ \A i \in Index : D[p][i] = ToSet(rolled'[p][i])
  BY ContentsNext
<1>6. \A w \in Place : go[p][w] = IF w # Slots + 1 \/ p \notin ps \cup xs THEN w
                                  ELSE IF p \in ps THEN Slots ELSE NoPlace
  BY DEF Emptying
<1>7. /\ Slots \in Nat /\ NoPlace = Slots + 2
      /\ Place = Index \cup {Slots, Slots + 1}
      /\ Slots \notin Index /\ Slots + 1 \notin Index /\ NoPlace \notin Place
  BY Places, RollingAssumption DEF NoPlace, Place
<1> HIDE DEF C, D, go
<1>8. CASE s \in Index
  <2>1. D[p][s] = C[p][s]
    BY <1>4, <1>5, <1>8
  <2>2. \A w \in Place : go[p][w] = s <=> w = s
    BY <1>6, <1>7, <1>8
  <2> QED  BY <2>1, <2>2
<1>9. CASE s = Slots
  <2>1. CASE p \in ps
    <3>1. D[p][s] = C[p][Slots] \cup C[p][Slots + 1]
      BY <1>2, <1>3, <1>4, <1>5, <1>9, <2>1
    <3>2. \A w \in Place : go[p][w] = s <=> w \in {Slots, Slots + 1}
      BY <1>6, <1>7, <1>9, <2>1
    <3> QED  BY <1>7, <3>1, <3>2
  <2>2. CASE p \notin ps
    <3>1. D[p][s] = C[p][Slots]
      BY <1>2, <1>4, <1>5, <1>9, <2>2
    <3>2. ASSUME NEW w \in Place PROVE go[p][w] = s <=> w = Slots
      <4>1. go[p][w] = w \/ (w = Slots + 1 /\ go[p][w] = NoPlace)
        BY <1>6, <2>2
      <4> QED  BY <1>7, <1>9, <4>1
    <3> QED  BY <1>7, <3>1, <3>2
  <2> QED  BY <2>1, <2>2
<1>10. CASE s = Slots + 1
  <2>1. CASE p \in ps \cup xs
    <3>1. D[p][s] = {}
      BY <1>2, <1>3, <1>5, <1>10, <2>1
    <3>2. \A w \in Place : go[p][w] # s
      BY <1>6, <1>7, <1>10, <2>1
    <3> QED  BY <3>1, <3>2
  <2>2. CASE p \notin ps \cup xs
    <3>1. D[p][s] = C[p][s]
      BY <1>2, <1>4, <1>5, <1>10, <2>2
    <3>2. \A w \in Place : go[p][w] = s <=> w = s
      BY <1>6, <1>7, <1>10, <2>2
    <3> QED  BY <3>1, <3>2
  <2> QED  BY <2>1, <2>2
<1> QED  BY <1>7, <1>8, <1>9, <1>10

LEMMA EmptiedChronicle ==
  ASSUME TypeOK, Chronicle, NEW ps, NEW xs, Emptied(ps, xs), UNCHANGED rolled
  PROVE  Chronicle'
<1> SUFFICES ASSUME NEW p \in Path
             PROVE  /\ Ascends(live'[p]) /\ Ascends(buf'[p])
                    /\ Before(ToSet(live'[p]), ToSet(buf'[p]))
                    /\ \A i \in Index : Ascends(rolled'[p][i])
  BY DEF Chronicle
<1>1. /\ Ascends(live[p]) /\ Ascends(buf[p]) /\ Before(ToSet(live[p]), ToSet(buf[p]))
      /\ \A i \in Index : Ascends(rolled[p][i])
  BY DEF Chronicle
<1>2. live[p] \in Seq(1..MaxRecords) /\ buf[p] \in Seq(1..MaxRecords)
  BY DEF TypeOK
<1>3. Ascends(live[p] \o buf[p])
  BY <1>1, <1>2, AscendsConcat
<1>4. Ascends(<<>>) /\ \A R : Before(R, ToSet(<<>>))
  BY ToSetEmpty DEF Ascends, Before
<1>5. CASE p \in ps
  BY <1>1, <1>3, <1>4, <1>5 DEF Emptied
<1>6. CASE p \notin ps
  BY <1>1, <1>4, <1>6 DEF Emptied
<1> QED  BY <1>5, <1>6

\* Where an emptying step leaves a record, or that it leaves it nowhere.
LEMMA EmptyingTo ==
  ASSUME NEW ps, NEW xs, NEW p \in Path, NEW w \in Place
  PROVE  /\ Emptying(ps, xs)[p][w] \in Place
              <=> ~(w = Slots + 1 /\ p \in xs /\ p \notin ps)
         /\ Emptying(ps, xs)[p][w] \in Place =>
              \/ Emptying(ps, xs)[p][w] = w /\ (w = Slots + 1 => p \notin ps)
              \/ w = Slots + 1 /\ p \in ps /\ Emptying(ps, xs)[p][w] = Slots
<1>1. Slots \in Place /\ Slots + 1 \in Place /\ NoPlace \notin Place
  BY Places, RollingAssumption DEF NoPlace, Place
<1> QED  BY <1>1 DEF Emptying

LEMMA EmptiedRecords ==
  ASSUME TypeOK, Chronicle, Known, InOnePlace, InSomePlace,
         NEW ps, NEW xs, Emptied(ps, xs), UNCHANGED <<rolled, count, erased>>,
         \A r : r \in lost' <=> \/ r \in lost
                                \/ \E p \in Path : /\ p \in xs /\ p \notin ps
                                                   /\ r \in Contents[p][Slots + 1]
  PROVE  Chronicle' /\ Known' /\ InOnePlace' /\ InSomePlace'
<1> DEFINE C == Contents
           D == Contents'
           go == Emptying(ps, xs)
<1>1. Chronicle'
  BY EmptiedChronicle
<1>2. Moved(C, D, go) /\ Apart(C)
  BY EmptiedMoved DEF InOnePlace
<1>3. \A p \in Path, w \in Place :
        go[p][w] \in Place <=> ~(w = Slots + 1 /\ p \in xs /\ p \notin ps)
  BY EmptyingTo
<1>4. /\ \A p \in Path, w \in Place : C[p][w] \subseteq 1..count
      /\ lost \subseteq 1..count
      /\ \A p \in Path : erased[p] \subseteq 1..count
  BY DEF Known
<1>5. \A r \in 1..count : (\E p \in Path, w \in Place : r \in C[p][w]) <=> ~Gone(r)
  BY DEF InSomePlace, Somewhere
<1>p. Slots + 1 \in Place
  BY Places
<1> HIDE DEF C, D, go
<1>6. InOnePlace'
  <2>1. Apart(D)
    BY <1>2, MovedApart
  <2> QED  BY <2>1 DEF InOnePlace, D, Apart
<1>7. Known'
  <2>1. \A p \in Path, s \in Place : D[p][s] \subseteq 1..count
    BY <1>2, <1>4 DEF Moved
  <2>2. lost' \subseteq 1..count
    BY <1>4, <1>p DEF C
  <2> QED  BY <1>4, <2>1, <2>2 DEF Known, D
<1>8. InSomePlace'
  <2> SUFFICES ASSUME NEW r \in 1..count
               PROVE  (\E p \in Path, s \in Place : r \in D[p][s]) <=> ~Gone(r)'
    BY DEF InSomePlace, Somewhere, D
  <2>1. Gone(r)' <=> \/ Gone(r)
                     \/ \E p \in Path, w \in Place : r \in C[p][w] /\ go[p][w] \notin Place
    BY <1>3, <1>p DEF Gone, C
  <2>2. (\E p \in Path, s \in Place : r \in D[p][s])
          <=> \E p \in Path, w \in Place : r \in C[p][w] /\ go[p][w] \in Place
    BY <1>2, MovedSomewhere
  <2>3. \A p, q \in Path, s, t \in Place :
          r \in C[p][s] /\ r \in C[q][t] => q = p /\ t = s
    BY <1>2 DEF Apart
  <2> QED  BY <1>5, <2>1, <2>2, <2>3
<1> QED  BY <1>1, <1>6, <1>7, <1>8

LEMMA TurnAtType ==
  ASSUME NEW i \in Index, NEW s \in Place
  PROVE  /\ s \in Index => TurnAt(i, s) \in 1..Slots
         /\ s = Slots => TurnAt(i, s) = Slots + 1
         /\ s = Slots + 1 => TurnAt(i, s) = Slots + 2
BY RollingAssumption DEF TurnAt, Index, Place

LEMMA EmptiedOrder ==
  ASSUME TypeOK, InTurnOrder, NEW ps, NEW xs, Emptied(ps, xs),
         UNCHANGED <<rolled, erased>>,
         UNCHANGED <<idx, inTurn>> \/ (idx' \in Index /\ IndexMoves(Path))
  PROVE  InTurnOrder'
<1> DEFINE C == Contents
           D == Contents'
           go == Emptying(ps, xs)
<1> SUFFICES ASSUME NEW p \in Path, inTurn'[p]
             PROVE  Ordered(idx', erased[p], D[p])
  BY DEF InTurnOrder, Ordered, Turn, TurnAt
<1>1. Moved(C, D, go)
  BY EmptiedMoved
<1>2. inTurn[p] /\ idx \in Index /\ idx' \in Index
  BY DEF TypeOK, IndexMoves
<1>3. Ordered(idx, erased[p], C[p])
  BY <1>2, TurnsOfPath DEF InTurnOrder
\* Where the index has moved, the rolled files of p are empty.
<1>4. idx' = idx \/ \A i \in Index : C[p][i] = {}
  <2>1. CASE IndexMoves(Path)
    <3>1. \A i \in Index : rolled[p][i] = <<>>
      BY <2>1 DEF IndexMoves
    <3> QED  BY <3>1, ContentsAt, ToSetEmpty
  <2> QED  BY <2>1
<1>5. ASSUME NEW w \in Place, NEW x \in Place, go[p][w] \in Place, go[p][x] \in Place,
             C[p][w] # {}, C[p][x] # {},
             TurnAt(idx', go[p][w]) < TurnAt(idx', go[p][x])
      PROVE  TurnAt(idx, w) < TurnAt(idx, x)
  <2>1. /\ go[p][w] = w \/ (w = Slots + 1 /\ p \in ps /\ go[p][w] = Slots)
        /\ go[p][x] = x \/ (x = Slots + 1 /\ p \in ps /\ go[p][x] = Slots)
        /\ w = Slots + 1 /\ p \in ps => go[p][w] = Slots
        /\ x = Slots + 1 /\ p \in ps => go[p][x] = Slots
    BY <1>5, EmptyingTo
  <2>2. /\ Slots \in Nat \ {0} /\ Slots \in Place
        /\ w \in Index \/ w = Slots \/ w = Slots + 1
        /\ x \in Index \/ x = Slots \/ x = Slots + 1
    BY Places, RollingAssumption
  <2>3. \A s \in Place : 
          /\ s \in Index => TurnAt(idx, s) \in 1..Slots /\ TurnAt(idx', s) \in 1..Slots
          /\ s = Slots => TurnAt(idx, s) = Slots + 1 /\ TurnAt(idx', s) = Slots + 1
          /\ s = Slots + 1 => TurnAt(idx, s) = Slots + 2 /\ TurnAt(idx', s) = Slots + 2
    BY <1>2, TurnAtType
  <2> HIDE DEF go, C
  <2>4. CASE w \in Index /\ x \in Index
    <3>1. idx' = idx
      BY <1>4, <1>5, <2>4
    <3>2. go[p][w] = w /\ go[p][x] = x
      BY <2>1, <2>4, Places
    <3> QED  BY <1>5, <3>1, <3>2
  <2>5. CASE w \in Index /\ x \in {Slots, Slots + 1}
    BY <2>2, <2>3, <2>5
  <2>6. CASE w \in {Slots, Slots + 1} /\ x \in Index
    <3>1. go[p][x] = x /\ TurnAt(idx', go[p][x]) \in 1..Slots
      BY <2>1, <2>2, <2>3, <2>6, Places
    <3>2. TurnAt(idx', go[p][w]) \in {Slots + 1, Slots + 2}
      BY <2>1, <2>2, <2>3, <2>6
    <3>3. TurnAt(idx', go[p][w]) < TurnAt(idx', go[p][x])
      BY <1>5
    <3> QED  BY <2>2, <3>1, <3>2, <3>3
  <2>7. CASE w \in {Slots, Slots + 1} /\ x \in {Slots, Slots + 1}
    <3>1. w # x
      <4>1. TurnAt(idx', go[p][w]) \in {Slots + 1, Slots + 2}
        BY <2>1, <2>2, <2>3, <2>7
      <4> QED  BY <1>5, <2>2, <4>1
    <3>2. CASE w = Slots + 1
      BY <1>5, <2>1, <2>2, <2>3, <2>7, <3>1, <3>2
    <3>3. CASE w = Slots
      BY <2>2, <2>3, <2>7, <3>1, <3>3
    <3> QED  BY <2>7, <3>2, <3>3
  <2> QED  BY <2>2, <2>4, <2>5, <2>6, <2>7
<1> HIDE DEF C, D, go
<1>6. Ordered(idx', erased[p], D[p])
  BY <1>1, <1>3, <1>5, MovedOrdered
<1> QED  BY <1>6

-----------------------------------------------------------------------------
(* A rename takes the records in the file, and what waited for it, to the  *)
(* next index, in place of the ones there.                                 *)
Renaming ==
  [p \in Path |-> [w \in Place |->
     IF p # target THEN w
     ELSE IF w = NextIndex THEN NoPlace
     ELSE IF w \in {Slots, Slots + 1} THEN NextIndex
     ELSE w]]

LEMMA RenameFacts ==
  ASSUME Base, Rename
  PROVE  /\ target \in Path /\ NextIndex \in Index /\ idx \in Index
         /\ idx' = NextIndex
         /\ live'[target] = <<>> /\ buf'[target] = <<>>
         /\ path # target => buf[target] = <<>>
         /\ rolled'[target][NextIndex] = live[target] \o buf[target]
         /\ \A i \in Index : i # NextIndex => rolled'[target][i] = rolled[target][i]
         /\ erased'[target] = erased[target] \cup ToSet(rolled[target][NextIndex])
         /\ \A p \in Path : p # target =>
              /\ live'[p] = live[p] /\ buf'[p] = buf[p] /\ rolled'[p] = rolled[p]
              /\ erased'[p] = erased[p]
<1>1. /\ target \in Path /\ target \notin Console /\ idx \in Index /\ pc = "roll"
      /\ path \in {target, NoPath} /\ idx' = NextIndex
    BY DEF Base, Targets, TypeOK, Rename
<1>2. NextIndex \in Index
  BY <1>1, NextIndexType
<1>3. path # target => buf[target] = <<>>
  BY <1>1 DEF Base, Waiting
<1>4. live[target] \in Seq(1..MaxRecords) /\ buf[target] \in Seq(1..MaxRecords)
  BY <1>1 DEF Base, TypeOK
<1>5. (IF path = target THEN live[target] \o buf[target] ELSE live[target])
        = live[target] \o buf[target]
  <2>1. live[target] \o <<>> = live[target]
    BY <1>4
  <2> QED  BY <1>3, <2>1
<1>6. rolled' = [rolled EXCEPT ![target][NextIndex] = live[target] \o buf[target]]
  BY <1>1, <1>5 DEF Rename
<1>7. /\ live' = [live EXCEPT ![target] = <<>>]
      /\ buf' = [p \in Path |-> IF p = path THEN <<>> ELSE buf[p]]
      /\ erased' = [erased EXCEPT ![target] = @ \cup ToSet(rolled[target][NextIndex])]
  BY <1>1 DEF Rename
<1>8. /\ rolled \in [Path -> [Index -> Seq(1..MaxRecords)]]
      /\ DOMAIN live = Path /\ DOMAIN erased = Path
  BY DEF Base, TypeOK
<1>9. /\ rolled'[target][NextIndex] = live[target] \o buf[target]
      /\ \A i \in Index : i # NextIndex => rolled'[target][i] = rolled[target][i]
      /\ \A p \in Path : p # target => rolled'[p] = rolled[p]
  BY <1>1, <1>2, <1>6, <1>8
<1>10. /\ live'[target] = <<>> /\ buf'[target] = <<>>
       /\ \A p \in Path : p # target => live'[p] = live[p] /\ buf'[p] = buf[p]
  BY <1>1, <1>3, <1>7, <1>8, RollingAssumption
<1>11. /\ erased'[target] = erased[target] \cup ToSet(rolled[target][NextIndex])
       /\ \A p \in Path : p # target => erased'[p] = erased[p]
  BY <1>1, <1>7, <1>8
<1> QED  BY <1>1, <1>2, <1>3, <1>9, <1>10, <1>11

LEMMA RenameMoved ==
  ASSUME Base, Rename
  PROVE  Moved(Contents, Contents', Renaming)
<1> DEFINE C == Contents
           D == Contents'
           go == Renaming
<1>f. /\ target \in Path /\ NextIndex \in Index
      /\ live'[target] = <<>> /\ buf'[target] = <<>>
      /\ rolled'[target][NextIndex] = live[target] \o buf[target]
      /\ \A i \in Index : i # NextIndex => rolled'[target][i] = rolled[target][i]
      /\ \A p \in Path : p # target =>
           live'[p] = live[p] /\ buf'[p] = buf[p] /\ rolled'[p] = rolled[p]
  BY RenameFacts
<1> SUFFICES ASSUME NEW p \in Path, NEW s \in Place, NEW r
             PROVE  r \in D[p][s] <=> \E w \in Place : go[p][w] = s /\ r \in C[p][w]
  BY DEF Moved
<1>1. live[p] \in Seq(1..MaxRecords) /\ buf[p] \in Seq(1..MaxRecords)
  BY DEF Base, TypeOK
<1>2. ToSet(live[p] \o buf[p]) = ToSet(live[p]) \cup ToSet(buf[p]) /\ ToSet(<<>>) = {}
  BY <1>1, ToSetConcat, ToSetEmpty
<1>3. /\ C[p][Slots] = ToSet(live[p])
      /\ C[p][Slots + 1] = ToSet(buf[p])
      /\ \A i \in Index : C[p][i] = ToSet(rolled[p][i])
  BY ContentsAt
<1>4. /\ D[p][Slots] = ToSet(live'[p])
      /\ D[p][Slots + 1] = ToSet(buf'[p])
      /\ \A i \in Index : D[p][i] = ToSet(rolled'[p][i])
  BY ContentsNext
<1>5. \A w \in Place :
        go[p][w] = IF p # target THEN w
                   ELSE IF w = NextIndex THEN NoPlace
                   ELSE IF w \in {Slots, Slots + 1} THEN NextIndex
                   ELSE w
  BY DEF Renaming
<1>6. /\ Slots \in Nat /\ NoPlace = Slots + 2
      /\ Place = Index \cup {Slots, Slots + 1}
      /\ Slots \notin Index /\ Slots + 1 \notin Index /\ NoPlace \notin Place
  BY Places, RollingAssumption DEF NoPlace, Place
<1> HIDE DEF C, D, go
<1>7. CASE p # target
  <2>1. D[p][s] = C[p][s]
    BY <1>f, <1>3, <1>4, <1>6, <1>7
  <2>2. \A w \in Place : go[p][w] = s <=> w = s
    BY <1>5, <1>7
  <2> QED  BY <2>1, <2>2
<1>8. CASE p = target /\ s = NextIndex
  <2>1. D[p][s] = C[p][Slots] \cup C[p][Slots + 1]
    BY <1>f, <1>2, <1>3, <1>4, <1>8
  <2>2. \A w \in Place : go[p][w] = s <=> w \in {Slots, Slots + 1}
    BY <1>f, <1>5, <1>6, <1>8
  <2> QED  BY <1>6, <2>1, <2>2
<1>9. CASE p = target /\ s \in Index /\ s # NextIndex
  <2>1. D[p][s] = C[p][s]
    BY <1>f, <1>3, <1>4, <1>9
  <2>2. \A w \in Place : go[p][w] = s <=> w = s
    BY <1>f, <1>5, <1>6, <1>9
  <2> QED  BY <2>1, <2>2
<1>10. CASE p = target /\ s \in {Slots, Slots + 1}
  <2>1. D[p][s] = {}
    BY <1>f, <1>2, <1>4, <1>10
  <2>2. \A w \in Place : go[p][w] # s
    BY <1>f, <1>5, <1>6, <1>10
  <2> QED  BY <2>1, <2>2
<1> QED  BY <1>6, <1>7, <1>8, <1>9, <1>10

LEMMA RenameRecords ==
  ASSUME Base, Chronicle, Known, InOnePlace, InSomePlace, Rename
  PROVE  Chronicle' /\ Known' /\ InOnePlace' /\ InSomePlace'
<1> DEFINE C == Contents
           D == Contents'
           go == Renaming
           i == NextIndex
<1>1. Chronicle'
  <2> SUFFICES ASSUME NEW p \in Path
               PROVE  /\ Ascends(live'[p]) /\ Ascends(buf'[p])
                      /\ Before(ToSet(live'[p]), ToSet(buf'[p]))
                      /\ \A k \in Index : Ascends(rolled'[p][k])
    BY DEF Chronicle
  <2>1. /\ Ascends(live[p]) /\ Ascends(buf[p]) /\ Before(ToSet(live[p]), ToSet(buf[p]))
        /\ \A k \in Index : Ascends(rolled[p][k])
    BY DEF Chronicle
  <2>2. live[p] \in Seq(1..MaxRecords) /\ buf[p] \in Seq(1..MaxRecords)
    BY DEF Base, TypeOK
  <2>3. Ascends(live[p] \o buf[p])
    BY <2>1, <2>2, AscendsConcat
  <2>4. Ascends(<<>>) /\ Before(ToSet(<<>>), ToSet(<<>>))
    BY ToSetEmpty DEF Ascends, Before
  <2>5. CASE p = target
    BY <2>1, <2>3, <2>4, <2>5, RenameFacts
  <2>6. CASE p # target
    BY <2>1, <2>6, RenameFacts
  <2> QED  BY <2>5, <2>6
<1>2. Moved(C, D, go) /\ Apart(C)
  BY RenameMoved DEF InOnePlace
<1>3. \A p \in Path, w \in Place :
        go[p][w] \in Place <=> ~(p = target /\ w = i)
  <2>1. i \in Place /\ NoPlace \notin Place
    BY Places, RenameFacts, RollingAssumption DEF NoPlace, Place
  <2> QED  BY <2>1 DEF Renaming
<1>4. /\ \A p \in Path, w \in Place : C[p][w] \subseteq 1..count
      /\ lost \subseteq 1..count
      /\ \A p \in Path : erased[p] \subseteq 1..count
  BY DEF Known
<1>5. \A r \in 1..count : (\E p \in Path, w \in Place : r \in C[p][w]) <=> ~Gone(r)
  BY DEF InSomePlace, Somewhere
<1>6. /\ target \in Path /\ i \in Place
      /\ erased'[target] = erased[target] \cup C[target][i]
      /\ \A p \in Path : p # target => erased'[p] = erased[p]
  BY RenameFacts, ContentsAt, Places
<1>7. count' = count /\ lost' = lost
  BY DEF Rename
<1> HIDE DEF C, D, go, i
<1>8. InOnePlace'
  <2>1. Apart(D)
    BY <1>2, MovedApart
  <2> QED  BY <2>1 DEF InOnePlace, D, Apart
<1>9. Known'
  <2>1. \A p \in Path, s \in Place : D[p][s] \subseteq 1..count
    BY <1>2, <1>4 DEF Moved
  <2>2. \A p \in Path : erased'[p] \subseteq 1..count
    BY <1>4, <1>6
  <2> QED  BY <1>4, <1>7, <2>1, <2>2 DEF Known, D
<1>10. InSomePlace'
  <2> SUFFICES ASSUME NEW r \in 1..count
               PROVE  (\E p \in Path, s \in Place : r \in D[p][s]) <=> ~Gone(r)'
    BY <1>7 DEF InSomePlace, Somewhere, D
  <2>1. Gone(r)' <=> Gone(r) \/ \E p \in Path, w \in Place : r \in C[p][w] /\ go[p][w] \notin Place
    <3>1. Gone(r)' <=> Gone(r) \/ r \in C[target][i]
      BY <1>6, <1>7 DEF Gone
    <3> QED  BY <1>3, <1>6, <3>1
  <2>2. (\E p \in Path, s \in Place : r \in D[p][s])
          <=> \E p \in Path, w \in Place : r \in C[p][w] /\ go[p][w] \in Place
    BY <1>2, MovedSomewhere
  <2>3. \A p, q \in Path, s, t \in Place :
          r \in C[p][s] /\ r \in C[q][t] => q = p /\ t = s
    BY <1>2 DEF Apart
  <2> QED  BY <1>5, <2>1, <2>2, <2>3
<1> QED  BY <1>1, <1>8, <1>9, <1>10

\* The place that comes first in turn comes last once the index has moved to
\* it, and the others move up.
LEMMA NextTurn ==
  ASSUME idx \in Index
  PROVE  /\ TurnAt(idx, NextIndex) = 1 /\ TurnAt(NextIndex, NextIndex) = Slots
         /\ \A s \in Index : s # NextIndex =>
              TurnAt(idx, s) > 1 /\ TurnAt(NextIndex, s) = TurnAt(idx, s) - 1
<1>1. /\ Slots \in Nat \ {0} /\ idx \in 0..(Slots - 1)
      /\ NextIndex = IF idx + 1 = Slots THEN 0 ELSE idx + 1
  BY RollingAssumption DEF Index, NextIndex
<1> QED  BY <1>1 DEF TurnAt, Index

LEMMA RenameOrder ==
  ASSUME Base, InTurnOrder, Rename
  PROVE  InTurnOrder'
<1> DEFINE C == Contents
           D == Contents'
           go == Renaming
           i == NextIndex
<1> SUFFICES ASSUME NEW p \in Path, inTurn'[p]
             PROVE  Ordered(idx', erased'[p], D[p])
  BY DEF InTurnOrder, Ordered, Turn, TurnAt
<1>1. Moved(C, D, go)
  BY RenameMoved
<1>2. inTurn[p] /\ idx \in Index /\ i \in Index /\ idx' = i /\ target \in Path
  BY RenameFacts DEF Rename, IndexMoves
<1>3. Ordered(idx, erased[p], C[p])
  BY <1>2, TurnsOfPath DEF InTurnOrder
<1>4. p # target => \A k \in Index : C[p][k] = {}
  <2> SUFFICES ASSUME p # target PROVE \A k \in Index : C[p][k] = {}
    OBVIOUS
  <2>1. \A k \in Index : rolled[p][k] = <<>>
    BY DEF Rename, IndexMoves
  <2> QED  BY <2>1, ContentsAt, ToSetEmpty
<1>5. /\ Slots \in Nat \ {0} /\ NoPlace \notin Place
      /\ Place = Index \cup {Slots, Slots + 1}
      /\ Slots \notin Index /\ Slots + 1 \notin Index
  BY Places, RollingAssumption DEF NoPlace, Place
<1>6. /\ TurnAt(idx, i) = 1 /\ TurnAt(i, i) = Slots
      /\ \A s \in Index : s # i =>
           TurnAt(idx, s) > 1 /\ TurnAt(i, s) = TurnAt(idx, s) - 1
      /\ \A s \in Index : TurnAt(idx, s) \in 1..Slots /\ TurnAt(i, s) \in 1..Slots
      /\ TurnAt(idx, Slots) = Slots + 1 /\ TurnAt(idx, Slots + 1) = Slots + 2
      /\ TurnAt(i, Slots) = Slots + 1 /\ TurnAt(i, Slots + 1) = Slots + 2
  BY <1>2, <1>5, NextTurn, TurnAtType
<1>7. \A w \in Place : go[p][w] = IF p # target THEN w
                                  ELSE IF w = i THEN NoPlace
                                  ELSE IF w \in {Slots, Slots + 1} THEN i
                                  ELSE w
  BY DEF Renaming
<1>8. /\ p = target => erased'[p] = erased[p] \cup C[p][i]
      /\ p # target => erased'[p] = erased[p]
  BY RenameFacts, ContentsAt
<1> HIDE DEF go, C, D, i
<1>9. ASSUME NEW w \in Place, NEW x \in Place, go[p][w] \in Place, go[p][x] \in Place,
             C[p][w] # {}, C[p][x] # {},
             TurnAt(i, go[p][w]) < TurnAt(i, go[p][x])
      PROVE  TurnAt(idx, w) < TurnAt(idx, x)
  <2>1. CASE p # target
    <3>1. go[p][w] = w /\ go[p][x] = x
      BY <1>7, <2>1
    <3>2. w \in {Slots, Slots + 1} /\ x \in {Slots, Slots + 1}
      BY <1>4, <1>5, <1>9, <2>1
    <3> QED  BY <1>5, <1>6, <1>9, <3>1, <3>2
  <2>2. CASE p = target
    <3>1. w # i /\ x # i
      BY <1>5, <1>7, <1>9, <2>2
    <3>2. CASE w \in Index /\ x \in Index
      <4>1. go[p][w] = w /\ go[p][x] = x
        BY <1>5, <1>7, <2>2, <3>1, <3>2
      <4> QED  BY <1>5, <1>6, <1>9, <3>1, <3>2, <4>1
    <3>3. CASE w \in Index /\ x \notin Index
      BY <1>5, <1>6, <3>3
    <3>4. CASE w \notin Index
      <4>1. go[p][w] = i /\ TurnAt(i, go[p][w]) = Slots
        BY <1>5, <1>6, <1>7, <2>2, <3>1, <3>4
      <4>2. TurnAt(i, go[p][x]) \in 1..Slots
        BY <1>2, <1>5, <1>6, <1>7, <2>2, <3>1
      <4> QED  BY <1>5, <1>9, <4>1, <4>2
    <3> QED  BY <3>2, <3>3, <3>4
  <2> QED  BY <2>1, <2>2
<1>10. ASSUME NEW r \in erased'[p]
       PROVE  r \in erased[p] \/ \E w \in Place :
                /\ r \in C[p][w]
                /\ \A x \in Place : go[p][x] \in Place => TurnAt(idx, w) < TurnAt(idx, x)
  <2>1. CASE p = target /\ r \in C[p][i]
    <3>1. ASSUME NEW x \in Place, go[p][x] \in Place
          PROVE  TurnAt(idx, i) < TurnAt(idx, x)
      <4>1. x # i
        BY <1>5, <1>7, <2>1, <3>1
      <4> QED  BY <1>5, <1>6, <4>1
    <3> QED  BY <1>2, <1>5, <2>1, <3>1
  <2> QED  BY <1>8, <1>10, <2>1
<1>11. Ordered(i, erased'[p], D[p])
  BY <1>1, <1>3, <1>9, <1>10, MovedOrdered
<1> QED  BY <1>2, <1>11

-----------------------------------------------------------------------------
(* A commit adds the newest record at the end of what waits.               *)
LEMMA CommitFacts ==
  ASSUME TypeOK, Commit
  PROVE  /\ path \in Path /\ count \in Nat /\ count' = count + 1
         /\ count + 1 \in 1..MaxRecords
         /\ buf'[path] = Append(buf[path], count + 1)
         /\ \A p \in Path : p # path => buf'[p] = buf[p]
         /\ UNCHANGED <<live, rolled, erased, lost, idx, inTurn>>
<1>1. /\ path \in Path /\ count \in Nat /\ count' = count + 1
      /\ count + 1 \in 1..MaxRecords
  BY RollingAssumption DEF TypeOK, Commit
<1>2. buf' = [buf EXCEPT ![path] = Append(@, count + 1)] /\ DOMAIN buf = Path
  BY DEF TypeOK, Commit
<1> QED  BY <1>1, <1>2 DEF Commit, destVars

LEMMA RecordAppend ==
  \A a \in Seq(1..MaxRecords), e \in 1..MaxRecords :
    ToSet(Append(a, e)) = ToSet(a) \cup {e}
BY ToSetAppend

LEMMA CommitContents ==
  ASSUME TypeOK, Commit, NEW p \in Path, NEW s \in Place
  PROVE  Contents'[p][s] = IF p = path /\ s = Slots + 1
                           THEN Contents[p][s] \cup {count + 1} ELSE Contents[p][s]
<1>1. buf[p] \in Seq(1..MaxRecords)
  BY DEF TypeOK
<1>0. count + 1 \in 1..MaxRecords
  BY CommitFacts
<1>2. ToSet(Append(buf[p], count + 1)) = ToSet(buf[p]) \cup {count + 1}
  BY <1>0, <1>1, RecordAppend
<1>3. /\ live'[p] = live[p] /\ rolled'[p] = rolled[p]
      /\ buf'[p] = IF p = path THEN Append(buf[p], count + 1) ELSE buf[p]
  BY CommitFacts
<1>4. /\ Contents[p][Slots] = ToSet(live[p])
      /\ Contents[p][Slots + 1] = ToSet(buf[p])
      /\ \A i \in Index : Contents[p][i] = ToSet(rolled[p][i])
  BY ContentsAt
<1>5. /\ Contents'[p][Slots] = ToSet(live'[p])
      /\ Contents'[p][Slots + 1] = ToSet(buf'[p])
      /\ \A i \in Index : Contents'[p][i] = ToSet(rolled'[p][i])
  BY ContentsNext
<1>6. s \in Index \/ s = Slots \/ s = Slots + 1
  BY Places
<1>7. CASE s \in Index \/ s = Slots
  <2>1. s # Slots + 1
    BY <1>7, Places, RollingAssumption
  <2> QED  BY <1>3, <1>4, <1>5, <1>7, <2>1
<1>8. CASE s = Slots + 1 /\ p = path
  BY <1>2, <1>3, <1>4, <1>5, <1>8
<1>9. CASE s = Slots + 1 /\ p # path
  BY <1>3, <1>4, <1>5, <1>9
<1> QED  BY <1>6, <1>7, <1>8, <1>9

LEMMA CommitKeeps ==
  ASSUME TypeOK, Chronicle, Known, InOnePlace, InSomePlace, InTurnOrder, Commit
  PROVE  Chronicle' /\ Known' /\ InOnePlace' /\ InSomePlace' /\ InTurnOrder'
<1> DEFINE C == Contents
           D == Contents'
<1>1. /\ path \in Path /\ count \in Nat /\ count' = count + 1
      /\ count + 1 \in 1..MaxRecords
      /\ buf'[path] = Append(buf[path], count + 1)
      /\ \A p \in Path : p # path => buf'[p] = buf[p]
      /\ UNCHANGED <<live, rolled, erased, lost, idx, inTurn>>
  BY CommitFacts
<1>2. /\ \A p \in Path, s \in Place : C[p][s] \subseteq 1..count
      /\ lost \subseteq 1..count
      /\ \A p \in Path : erased[p] \subseteq 1..count
  BY DEF Known
<1>3. \A p \in Path, s \in Place :
        D[p][s] = IF p = path /\ s = Slots + 1 THEN C[p][s] \cup {count + 1} ELSE C[p][s]
  BY CommitContents
<1>p. Slots + 1 \in Place
  BY Places
<1>4. Chronicle'
  <2> SUFFICES ASSUME NEW p \in Path
               PROVE  /\ Ascends(live'[p]) /\ Ascends(buf'[p])
                      /\ Before(ToSet(live'[p]), ToSet(buf'[p]))
                      /\ \A k \in Index : Ascends(rolled'[p][k])
    BY DEF Chronicle
  <2>1. /\ Ascends(live[p]) /\ Ascends(buf[p]) /\ Before(ToSet(live[p]), ToSet(buf[p]))
        /\ \A k \in Index : Ascends(rolled[p][k])
    BY DEF Chronicle
  <2>2. CASE p # path
    BY <1>1, <2>1, <2>2
  <2>3. CASE p = path
    <3>1. buf[p] \in Seq(1..MaxRecords)
      BY DEF TypeOK
    <3>2. ToSet(live[p]) \subseteq 1..count /\ ToSet(buf[p]) \subseteq 1..count
      BY <1>2, ContentsAt, Places
    <3>3. Before(ToSet(live[p]), {count + 1}) /\ Before(ToSet(buf[p]), {count + 1})
      BY <1>1, <3>2 DEF Before
    <3>4. Ascends(Append(buf[p], count + 1))
      BY <1>1, <2>1, <3>1, <3>3, AscendsAppend
    <3>5. ToSet(Append(buf[p], count + 1)) = ToSet(buf[p]) \cup {count + 1}
      <4>1. count + 1 \in 1..MaxRecords
        BY <1>1
      <4> QED  BY <3>1, <4>1, RecordAppend
    <3>6. Before(ToSet(live[p]), ToSet(Append(buf[p], count + 1)))
      BY <2>1, <3>3, <3>5 DEF Before
    <3> QED  BY <1>1, <2>1, <2>3, <3>4, <3>6
  <2> QED  BY <2>2, <2>3
<1> HIDE DEF C, D
<1>5. \A k \in 1..count : k \in 1..(count + 1) /\ k # count + 1 /\ k < count + 1
  BY <1>1
<1>6. Known'
  <2>1. ASSUME NEW p \in Path, NEW s \in Place, NEW r \in D[p][s]
        PROVE  r \in 1..(count + 1)
    <3>1. r \in C[p][s] \/ r = count + 1
      BY <1>3
    <3>2. C[p][s] \subseteq 1..count /\ count + 1 \in 1..(count + 1)
      BY <1>1, <1>2
    <3> QED  BY <1>5, <3>1, <3>2
  <2>2. lost' \subseteq 1..(count + 1) /\ \A p \in Path : erased'[p] \subseteq 1..(count + 1)
    BY <1>1, <1>2, <1>5
  <2> QED  BY <1>1, <2>1, <2>2 DEF Known, D
<1>7. InOnePlace'
  <2>1. \A p, q \in Path, s, t \in Place :
          \A r \in C[p][s] : r \in C[q][t] => q = p /\ t = s
    BY DEF InOnePlace, Apart, C
  <2>2. ASSUME NEW p \in Path, NEW q \in Path, NEW s \in Place, NEW t \in Place,
               NEW r \in D[p][s], r \in D[q][t]
        PROVE  q = p /\ t = s
    <3>1. CASE r = count + 1
      <4>1. r \notin C[p][s] /\ r \notin C[q][t]
        BY <1>2, <1>5, <3>1
      <4>2. p = path /\ s = Slots + 1
        BY <1>3, <4>1
      <4>3. q = path /\ t = Slots + 1
        BY <1>3, <2>2, <4>1
      <4> QED  BY <4>2, <4>3
    <3>2. CASE r # count + 1
      <4>1. r \in C[p][s] /\ r \in C[q][t]
        BY <1>3, <2>2, <3>2
      <4> QED  BY <2>1, <2>2, <4>1
    <3> QED  BY <3>1, <3>2
  <2> QED  BY <2>2 DEF InOnePlace, D, Apart
<1>8. InSomePlace'
  <2> SUFFICES ASSUME NEW r \in 1..(count + 1)
               PROVE  (\E p \in Path : \E s \in Place : r \in D[p][s]) <=> ~Gone(r)'
    BY <1>1 DEF InSomePlace, Somewhere, D
  <2>1. Gone(r)' <=> Gone(r)
    BY <1>1 DEF Gone
  <2>2. CASE r = count + 1
    <3>1. ~Gone(r)
      BY <1>2, <1>5, <2>2 DEF Gone
    <3>2. r \in D[path][Slots + 1]
      BY <1>1, <1>3, <1>p, <2>2
    <3> QED  BY <1>1, <1>p, <2>1, <3>1, <3>2
  <2>3. CASE r # count + 1
    <3>1. r \in 1..count
      BY <1>1, <2>3
    <3>2. \A p \in Path, s \in Place : r \in D[p][s] <=> r \in C[p][s]
      BY <1>3, <2>3
    <3>3. (\E p \in Path : \E s \in Place : r \in C[p][s]) <=> ~Gone(r)
      BY <3>1 DEF InSomePlace, Somewhere, C
    <3> QED  BY <2>1, <3>2, <3>3
  <2> QED  BY <2>2, <2>3
<1>9. InTurnOrder'
  <2> SUFFICES ASSUME NEW p \in Path, inTurn'[p]
               PROVE  Ordered(idx', erased'[p], D[p])
    BY DEF InTurnOrder, Ordered, Turn, TurnAt, D
  <2>1. Ordered(idx, erased[p], C[p])
    BY <1>1, TurnsOfPath DEF InTurnOrder, C
  <2>2. idx \in Index
    BY DEF TypeOK
  <2>3. \A t \in Place : ~(TurnAt(idx, Slots + 1) < TurnAt(idx, t))
    BY <2>2, TurnAtType, Places, RollingAssumption
  <2>4. /\ \A s \in Place : \A r \in C[p][s] : r < count + 1
        /\ \A r \in erased[p] : r < count + 1
    BY <1>2, <1>5
  <2>5. ASSUME NEW s \in Place PROVE Before(erased[p], D[p][s])
    <3>1. D[p][s] \subseteq C[p][s] \cup {count + 1}
      BY <1>3
    <3>2. Before(erased[p], C[p][s])
      BY <2>1 DEF Ordered
    <3> QED  BY <2>4, <3>1, <3>2 DEF Before
  <2>6. ASSUME NEW s \in Place, NEW t \in Place, TurnAt(idx, s) < TurnAt(idx, t)
        PROVE  Before(D[p][s], D[p][t])
    <3>1. s # Slots + 1 /\ D[p][s] = C[p][s] /\ Before(C[p][s], C[p][t])
      BY <1>3, <2>1, <2>3, <2>6 DEF Ordered
    <3>2. D[p][t] \subseteq C[p][t] \cup {count + 1}
      BY <1>3
    <3> QED  BY <2>4, <3>1, <3>2 DEF Before
  <2> QED  BY <1>1, <2>5, <2>6 DEF Ordered
<1> QED  BY <1>4, <1>6, <1>7, <1>8, <1>9

LEMMA DrainingKeeps ==
  ASSUME TypeOK, Chronicle, Known, InOnePlace, InSomePlace, InTurnOrder,
         NEW ps, Emptied(ps, {}), UNCHANGED <<rolled, count, erased, lost>>,
         UNCHANGED <<idx, inTurn>> \/ (idx' \in Index /\ IndexMoves(Path))
  PROVE  Chronicle' /\ Known' /\ InOnePlace' /\ InSomePlace' /\ InTurnOrder'
<1>1. Chronicle' /\ Known' /\ InOnePlace' /\ InSomePlace'
  BY EmptiedRecords
<1>2. InTurnOrder'
  BY EmptiedOrder
<1> QED  BY <1>1, <1>2

LEMMA CrashKeeps ==
  ASSUME TypeOK, Chronicle, Known, InOnePlace, InSomePlace, InTurnOrder, Crash
  PROVE  Chronicle' /\ Known' /\ InOnePlace' /\ InSomePlace' /\ InTurnOrder'
<1>1. PICK ps \in SUBSET {p \in Path : buf[p] # <<>>} :
        /\ live' = [p \in Path |-> IF p \in ps THEN live[p] \o buf[p] ELSE live[p]]
        /\ lost' = lost \cup UNION {ToSet(buf[p]) : p \in Path \ ps}
  BY DEF Crash
<1>2. Emptied(ps, Path)
  BY <1>1 DEF Emptied, Crash
<1>3. UNCHANGED <<rolled, count, erased, idx, inTurn>>
  BY DEF Crash
<1>4. \A r : r \in lost' <=> \/ r \in lost
                             \/ \E p \in Path : /\ p \in Path /\ p \notin ps
                                                /\ r \in Contents[p][Slots + 1]
  BY <1>1, ContentsAt
<1>5. Chronicle' /\ Known' /\ InOnePlace' /\ InSomePlace'
  BY <1>2, <1>3, <1>4, EmptiedRecords
<1>6. InTurnOrder'
  BY <1>2, <1>3, EmptiedOrder
<1> QED  BY <1>5, <1>6

-----------------------------------------------------------------------------
LEMMA InitIInv == Init => IInv
<1> SUFFICES ASSUME Init PROVE IInv
  OBVIOUS
<1>1. Base
  BY InitBase
<1>2. Chronicle
  BY ToSetEmpty DEF Init, Chronicle, Ascends, Before
<1>3. ASSUME NEW p \in Path, NEW s \in Place PROVE Contents[p][s] = {}
  <2>1. /\ live[p] = <<>> /\ buf[p] = <<>>
        /\ \A i \in Index : rolled[p][i] = <<>>
    BY DEF Init
  <2> QED  BY <2>1, ToSetEmpty, ContentsAt, Places
<1>4. Known /\ InOnePlace /\ InSomePlace /\ InTurnOrder
  BY <1>3 DEF Init, Known, InOnePlace, Apart, InSomePlace, InTurnOrder, Before
<1> QED  BY <1>1, <1>2, <1>4 DEF IInv

LEMMA NextIInv == IInv /\ [Next]_vars => IInv'
<1> SUFFICES ASSUME IInv, [Next]_vars PROVE IInv'
  OBVIOUS
<1>1. /\ TypeOK /\ Base /\ Chronicle /\ Known /\ InOnePlace /\ InSomePlace
      /\ InTurnOrder
  BY DEF IInv, Base
<1>2. Base'
  BY <1>1, NextBase
<1> DEFINE Rest == Chronicle' /\ Known' /\ InOnePlace' /\ InSomePlace' /\ InTurnOrder'
<1> SUFFICES Rest
  BY <1>2 DEF IInv
<1>3. CASE CommitEmpty \/ SamePath \/ Reopen \/ PathHookThrows \/ UNCHANGED vars
  <2>1. /\ UNCHANGED <<live, buf>> /\ UNCHANGED <<rolled, count, erased, lost>>
        /\ UNCHANGED <<idx, inTurn>>
    BY <1>3 DEF CommitEmpty, SamePath, Reopen, PathHookThrows, vars,
                destVars, fileVars, histVars
  <2> QED  BY <1>1, <2>1, StillEmptied, DrainingKeeps
<1>4. CASE NewPath \/ NoRoll \/ Flush \/ RollHookThrows \/ Deinit
  <2>1. /\ \E ps : Drained(ps)
        /\ UNCHANGED <<rolled, count, erased, lost>> /\ UNCHANGED <<idx, inTurn>>
    BY <1>4 DEF NewPath, NoRoll, Flush, RollHookThrows, Deinit, destVars, histVars
  <2> QED  BY <1>1, <2>1, DrainedEmptied, DrainingKeeps
<1>5. CASE RenameFails
  <2>1. /\ \E ps : Drained(ps)
        /\ UNCHANGED <<rolled, count, erased, lost>> /\ IndexMoves(Path)
    BY <1>5 DEF RenameFails
  <2>2. idx' \in Index
    BY <1>1, <1>5, NextIndexType DEF RenameFails, TypeOK
  <2> QED  BY <1>1, <2>1, <2>2, DrainedEmptied, DrainingKeeps
<1>6. CASE Construct
  <2>1. /\ UNCHANGED <<live, buf>> /\ UNCHANGED <<rolled, count, erased, lost>>
        /\ IndexMoves(Path) /\ idx' \in Index
    BY <1>6, RollingAssumption DEF Construct, Index
  <2> QED  BY <1>1, <2>1, StillEmptied, DrainingKeeps
<1>7. CASE Commit
  BY <1>1, <1>7, CommitKeeps
<1>8. CASE Rename
  BY <1>1, <1>8, RenameRecords, RenameOrder
<1>9. CASE Crash
  BY <1>1, <1>9, CrashKeeps
<1> HIDE DEF Rest
<1> QED  BY <1>3, <1>4, <1>5, <1>6, <1>7, <1>8, <1>9 DEF Next, FlushSteps

(* The synchronous logger's invariant holds in every reachable state.      *)
THEOREM Invariance == Spec => []IInv
BY InitIInv, NextIInv, PTL DEF Spec

(* Types: in particular every record in a file, in a buffer or in a rolled *)
(* file is one that commit() can have taken, and the roll index stays      *)
(* below the number of rolled files, however many there are.               *)
THEOREM TypeCorrect == Spec => []TypeOK
<1>1. IInv => TypeOK
  BY DEF IInv, Base
<1> QED  BY <1>1, Invariance, PTL

(* Nothing waits in the stream of a file when no call is under way: after  *)
(* any sequence of changes of the path, rolls, failed renamings, failed    *)
(* openings, throwing hooks, ends and deaths, for any paths and any number *)
(* of records.                                                             *)
THEOREM NothingWaits == Spec => []DurableWhenIdle
<1>1. IInv => DurableWhenIdle
  BY DEF IInv, Base, Targets, Waiting, DurableWhenIdle
<1> QED  BY <1>1, Invariance, PTL

(* After any such sequence a record that commit() took is in one place and *)
(* there once, and those that are nowhere died in a buffer or were in a    *)
(* rolled file that has been replaced.                                     *)
THEOREM OneCopy == Spec => []EachOnce
<1>1. ASSUME IInv PROVE EachOnce
  <2>1. \A p \in Path, s \in Place : Contents[p][s] = ToSet(Held(p, s))
    BY DEF Contents
  <2>2. ASSUME NEW p \in Path, NEW s \in Place
        PROVE  IsInjective(Held(p, s))
    <3>1. Held(p, s) \in Seq(1..MaxRecords)
      BY <1>1, RollingAssumption DEF IInv, Base, TypeOK, Held, Place, Index
    <3>2. Ascends(Held(p, s))
      BY <1>1, RollingAssumption DEF IInv, Chronicle, Held, Place, Index
    <3>3. 1..MaxRecords \in SUBSET Nat
      BY RollingAssumption
    <3> QED  BY <3>1, <3>2, <3>3, AscendsOnce
  <2>3. Apart(Contents) /\ InSomePlace
    BY <1>1 DEF IInv, InOnePlace
  <2>4. ASSUME NEW p \in Path, NEW s \in Place, NEW r \in ToSet(Held(p, s)),
               NEW q \in Path, NEW t \in Place, Found(r, q, t)
        PROVE  q = p /\ t = s
    BY <2>1, <2>3, <2>4 DEF Apart, Found
  <2>5. ASSUME NEW r \in 1..count
        PROVE  (\E p \in Path : \E s \in Place : Found(r, p, s))
                 <=> r \notin lost /\ \A p \in Path : r \notin erased[p]
    BY <2>1, <2>3 DEF InSomePlace, Somewhere, Gone, Found
  <2> QED  BY <2>2, <2>4, <2>5 DEF EachOnce
<1> QED  BY <1>1, Invariance, PTL

(* Every file is in the order of the commits, and for any number of rolled *)
(* files a path whose turns were all its own holds its newest records: all *)
(* that rolling has erased is older.                                       *)
THEOREM NewestKept == Spec => []KeepsNewest
<1>1. ASSUME IInv PROVE KeepsNewest
  <2>1. \A p \in Path, s \in Place : Contents[p][s] = ToSet(Held(p, s))
    BY DEF Contents
  <2>2. \A p \in Path, s \in Place : Ascends(Held(p, s))
    BY <1>1, RollingAssumption DEF IInv, Chronicle, Held, Place, Index
  <2>3. \A p \in Path : Before(ToSet(live[p]), ToSet(buf[p]))
    BY <1>1 DEF IInv, Chronicle
  <2>4. ASSUME NEW p \in Path, inTurn[p], NEW s \in Place
        PROVE  /\ Before(erased[p], ToSet(Held(p, s)))
               /\ \A t \in Place :
                    Turn(s) < Turn(t) => Before(ToSet(Held(p, s)), ToSet(Held(p, t)))
    BY <1>1, <2>1, <2>4 DEF IInv, InTurnOrder
  <2> QED  BY <2>2, <2>3, <2>4 DEF KeepsNewest
<1> QED  BY <1>1, Invariance, PTL
=============================================================================
