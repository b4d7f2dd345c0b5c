---------------------------- MODULE MessageProofs ----------------------------
(***************************************************************************)
(* Theorems about MessageStore, for any number of conversations, shards,   *)
(* sends and failures: the numbers of a conversation have no gap, a key is *)
(* stored once, answers agree with what is stored, only attempts that      *)
(* overlap collide, and a client that pulls page by page misses nothing.   *)
(* With that the store implements ConversationLog.  The last part has what *)
(* the sends' coming to an end rests on.                                   *)
(***************************************************************************)
EXTENDS MessageStore, Sequences, FiniteSetTheorems, TLAPS

\* Leaves that are not marked SMTT are for Zenon.
USE ZenonT(90)

Stages == {"new", "opened", "locked", "fresh", "duplicate", "conflict", "written",
           "doomed", "unsure", "done"}
Results == {"none", "accepted", "duplicate", "refused", "conflict", "failed"}
Rows == [key : {Key[a] : a \in Sends}, conv : Convs, content : {Content[a] : a \in Sends}, seq : Nat]

Tables ==
    /\ rows \subseteq Rows /\ latest \in [Convs -> Nat]
    /\ lock \in [Convs -> Sends \cup {NoSend}] /\ inserted \subseteq Sends
    /\ stage \in [Sends -> Stages] /\ result \in [Sends -> Results]
    /\ seq \in [Sends -> Nat] /\ view \in [Sends -> SUBSET Rows]

\* Gapless for the conversation v, whose rows are finitely many.
Numbered(v) ==
    /\ {m.seq : m \in RowsOf(v)} = 1..latest[v]
    /\ IsFiniteSet(RowsOf(v)) /\ Cardinality(RowsOf(v)) = latest[v]

OneRowPerKey == \A m, n \in rows : m.key = n.key => m = n

\* Of two uncommitted rows with one key the second is not written.
OneInsertPerKey == \A a, b \in inserted : Key[a] = Key[b] => a = b

AcceptedOnce ==
    \A a, b \in Sends :
        result[a] = "accepted" /\ result[b] = "accepted" /\ Key[a] = Key[b] => a = b

TakenElsewhere(a) == \E m \in Stored(Key[a]) : m.conv # Conv[a] \/ m.content # Content[a]

Holds == {"locked", "fresh", "duplicate", "conflict", "written"}

\* What is known of a send: that it holds the conversation's row from the lock
\* to the end of its transaction, that the number it read is therefore still
\* the latest, and what the rows say of what it found.
Sound(a) ==
    /\ stage[a] \in Holds \/ a \in inserted => lock[Conv[a]] = a
    /\ stage[a] \in {"locked", "fresh"} => seq[a] = latest[Conv[a]]
    /\ a \in inserted => /\ stage[a] \in {"written", "doomed", "unsure"}
                         /\ seq[a] = latest[Conv[a]] + 1 /\ Stored(Key[a]) = {}
    /\ stage[a] = "written" => a \in inserted
    /\ view[a] \subseteq Stored(Key[a])
    /\ stage[a] = "duplicate" => Row(a) \in rows
    /\ stage[a] = "conflict" => TakenElsewhere(a)
    /\ stage[a] \in {"new"} \cup Running => result[a] = "none"
    /\ stage[a] \in {"doomed", "unsure"} => result[a] = "failed"
    /\ result[a] \in Succeeded => Row(a) \in rows
    /\ result[a] = "conflict" => TakenElsewhere(a)

Inductive ==
    /\ Tables /\ \A v \in Convs : Numbered(v)
    /\ OneRowPerKey /\ OneInsertPerKey /\ AcceptedOnce
    /\ \A a \in Sends : Sound(a)

\* What is known of a send that met its key: one that began after the key was
\* stored sees it, and while a send to a group holds the group's row nothing is
\* stored in that conversation.
Overlap(a) ==
    /\ stage[a] = "new" => a \notin early \cup collided
    /\ a \in early => Stored(Key[a]) # {} /\ stage[a] # "fresh"
    /\ a \in early /\ Direct(a) /\ stage[a] \in {"opened", "locked"} => view[a] # {}
    /\ a \in collided => a \notin early /\ Stored(Key[a]) # {}
    /\ ~Direct(a) /\ (stage[a] = "fresh" \/ a \in collided) => \A m \in Stored(Key[a]) : m.conv # Conv[a]

OverlapInv == early \subseteq Sends /\ collided \subseteq Sends /\ \A a \in Sends : Overlap(a)

\* What is known of a reader: nothing it goes by is ahead of latestSeq, so that
\* no row can appear behind its cursor.
Reader(r) ==
    /\ joined[r] <= latest[Reads[r]] + 1 /\ cursor[r] <= latest[Reads[r]] /\ bound[r] <= latest[Reads[r]]
    /\ joined[r] = 0 => cursor[r] = 0 /\ r \notin pulling
    /\ fetched[r] = {m \in RowsOf(Reads[r]) : joined[r] <= m.seq /\ m.seq <= cursor[r]}
    /\ r \notin pulling /\ ~more[r] => cursor[r] >= bound[r]

ReaderInv ==
    /\ joined \in [Readers -> Nat] /\ bound \in [Readers -> Nat] /\ cursor \in [Readers -> Nat]
    /\ more \in [Readers -> BOOLEAN] /\ fetched \in [Readers -> SUBSET Rows]
    /\ \A r \in Readers : Reader(r)

-----------------------------------------------------------------------------
\* A step of a that commits nothing, takes no row from another send and leaves
\* a itself sound keeps the invariant.
LEMMA Moves ==
    ASSUME Inductive, NEW a \in Sends, UNCHANGED <<rows, latest>>,
           NEW s \in Stages, stage' = [stage EXCEPT ![a] = s],
           NEW k \in Nat, seq' = [seq EXCEPT ![a] = k],
           NEW w \in SUBSET Rows, view' = [view EXCEPT ![a] = w],
           NEW r \in Results \ {"accepted"}, result' \in {result, [result EXCEPT ![a] = r]},
           lock' \in [Convs -> Sends \cup {NoSend}],
           \A v \in Convs : lock[v] \notin {NoSend, a} => lock'[v] = lock[v],
           inserted' \in {inserted, inserted \ {a}, inserted \cup {a}},
           OneInsertPerKey', Sound(a)'
    PROVE  Inductive'
<1>1. /\ Tables' /\ \A b \in Sends \ {a} : /\ stage'[b] = stage[b] /\ seq'[b] = seq[b]
                                           /\ view'[b] = view[b] /\ result'[b] = result[b]
                                           /\ (b \in inserted' <=> b \in inserted)
  BY DEF Inductive, Tables
<1>2. (\A v \in Convs : Numbered(v)') /\ OneRowPerKey'
  BY DEF Inductive, Numbered, RowsOf, OneRowPerKey
<1>3. AcceptedOnce'
  <2>1. \A b \in Sends : result'[b] = "accepted" => result[b] = "accepted"
    BY DEF Inductive, Tables
  <2> QED BY <2>1 DEF Inductive, AcceptedOnce
<1>4. ASSUME NEW b \in Sends, b # a PROVE Sound(b)'
  <2>1. Sound(b)
    BY DEF Inductive
  <2>2. Conv[b] \in Convs /\ b # NoSend
    BY StoreConstants
  <2>3. lock[Conv[b]] = b => lock'[Conv[b]] = b
    BY <1>4, <2>2
  <2>4. Row(b)' = Row(b) /\ Stored(Key[b])' = Stored(Key[b]) /\ TakenElsewhere(b)' = TakenElsewhere(b)
    BY <1>1, <1>4 DEF Row, Stored, TakenElsewhere
  <2> QED BY SMTT(30), <1>1, <1>4, <2>1, <2>3, <2>4 DEF Sound
<1> QED BY <1>1, <1>2, <1>3, <1>4 DEF Inductive

\* What a step of a leaves alone can be written as Moves wants it.
LEMMA Same ==
    ASSUME Inductive, NEW a \in Sends
    PROVE  /\ stage[a] \in Stages /\ seq[a] \in Nat /\ view[a] \in SUBSET Rows
           /\ seq = [seq EXCEPT ![a] = seq[a]] /\ view = [view EXCEPT ![a] = view[a]]
           /\ Conv[a] \in Convs /\ a # NoSend /\ Sound(a)
           /\ {m \in rows : m.key = Key[a]} \in SUBSET Rows
<1> QED BY StoreConstants DEF Inductive, Tables

\* Init: the tables are empty and nothing was answered.
LEMMA InitInductive == Init => Inductive
<1> SUFFICES ASSUME Init PROVE Inductive
  OBVIOUS
<1>1. Tables
  BY DEF Init, Tables, Stages, Results
<1>2. ASSUME NEW v \in Convs PROVE Numbered(v)
  <2>1. RowsOf(v) = {} /\ latest[v] = 0
    BY DEF Init, RowsOf
  <2>2. {m.seq : m \in RowsOf(v)} = 1..latest[v]
    BY SMTT(30), <2>1
  <2> QED BY <2>1, <2>2, FS_EmptySet DEF Numbered
<1>3. OneRowPerKey /\ OneInsertPerKey /\ AcceptedOnce
  BY DEF Init, OneRowPerKey, OneInsertPerKey, AcceptedOnce
<1>4. ASSUME NEW a \in Sends PROVE Sound(a)
  BY DEF Init, Sound, Holds, Succeeded
<1> QED BY <1>1, <1>2, <1>3, <1>4 DEF Inductive

\* Of the conversations' rows Release frees the ones a holds and no other.
LEMMA ReleaseFrees ==
    ASSUME Tables, NEW a \in Sends, Release(a)
    PROVE  /\ lock' \in [Convs -> Sends \cup {NoSend}]
           /\ \A v \in Convs : lock[v] \notin {NoSend, a} => lock'[v] = lock[v]
           /\ inserted' = inserted \ {a}
<1> QED BY DEF Release, Tables

\* A send that ends and writes nothing: Refuse, RejectConflict, the COMMIT of a
\* duplicate and the end of a transaction that was given up.
LEMMA Ends ==
    ASSUME Inductive, NEW a \in Sends, UNCHANGED <<rows, latest, seq>>, Release(a), Goto(a, "done"),
           view' \in {view, [view EXCEPT ![a] = {}]},
           NEW r \in {"refused", "conflict", "duplicate", "none"},
           r = "conflict" => TakenElsewhere(a), r = "duplicate" => Row(a) \in rows,
           result' \in {result, [result EXCEPT ![a] = r]}
    PROVE  Inductive'
<1>1. PICK w \in SUBSET Rows : view' = [view EXCEPT ![a] = w] /\ w \in {view[a], {}}
  BY Same
<1>2. seq' = [seq EXCEPT ![a] = seq[a]] /\ seq[a] \in Nat
  BY Same
<1>3. stage' = [stage EXCEPT ![a] = "done"] /\ "done" \in Stages
  BY DEF Goto, Stages
<1>4. /\ lock' \in [Convs -> Sends \cup {NoSend}]
      /\ \A v \in Convs : lock[v] \notin {NoSend, a} => lock'[v] = lock[v]
      /\ inserted' = inserted \ {a}
  BY ReleaseFrees DEF Inductive
<1>5. OneInsertPerKey'
  BY <1>4 DEF Inductive, OneInsertPerKey
<1>6. Row(a)' = Row(a) /\ Stored(Key[a])' = Stored(Key[a]) /\ TakenElsewhere(a)' = TakenElsewhere(a)
  BY DEF Row, Stored, TakenElsewhere
<1>7. stage'[a] = "done" /\ view'[a] = w /\ result'[a] \in {result[a], r}
  BY <1>1, <1>3 DEF Inductive, Tables
<1>8. Sound(a)'
  BY SMTT(30), Same, <1>1, <1>4, <1>6, <1>7 DEF Sound, Holds, Running, Succeeded
<1>9. r \in Results \ {"accepted"}
  BY DEF Results
<1> QED BY Moves, <1>1, <1>2, <1>3, <1>4, <1>5, <1>8, <1>9

-----------------------------------------------------------------------------
\* START TRANSACTION and the first SELECT.
LEMMA OpenKeeps == ASSUME Inductive, NEW a \in Sends, Open(a) PROVE Inductive'
<1>1. PICK w \in SUBSET Rows : view' = [view EXCEPT ![a] = w] /\ w \subseteq Stored(Key[a])
  <2>1. CASE view' = [view EXCEPT ![a] = Stored(Key[a])]
    BY <2>1, Same DEF Stored
  <2>2. CASE UNCHANGED view
    BY <2>2, Same DEF Sound
  <2> QED BY <2>1, <2>2 DEF Open
<1>2. /\ lock' \in [Convs -> Sends \cup {NoSend}]
      /\ \A v \in Convs : lock[v] \notin {NoSend, a} => lock'[v] = lock[v]
  BY DEF Open, Inductive, Tables
<1>3. /\ stage' = [stage EXCEPT ![a] = "opened"] /\ "opened" \in Stages /\ stage[a] = "new"
      /\ UNCHANGED <<rows, latest, inserted, seq, result>>
  BY DEF Open, Goto, Stages
<1>4. seq' = [seq EXCEPT ![a] = seq[a]] /\ seq[a] \in Nat
  BY <1>3, Same
<1>5. OneInsertPerKey'
  BY <1>3 DEF Inductive, OneInsertPerKey
<1>6. Row(a)' = Row(a) /\ Stored(Key[a])' = Stored(Key[a])
  BY <1>3 DEF Row, Stored
<1>7. stage'[a] = "opened" /\ view'[a] = w
  BY <1>1, <1>3 DEF Inductive, Tables
<1>8. Sound(a)'
  BY SMTT(30), Same, <1>1, <1>3, <1>6, <1>7 DEF Sound, Holds, Running, Succeeded
<1>9. "none" \in Results \ {"accepted"}
  BY DEF Results
<1> QED BY Moves, <1>1, <1>2, <1>3, <1>4, <1>5, <1>8, <1>9

\* SELECT latestSeq ... FOR UPDATE: the number is the committed one, and the row
\* is not another send's.
LEMMA LockKeeps == ASSUME Inductive, NEW a \in Sends, Lock(a) PROVE Inductive'
<1>1. /\ stage' = [stage EXCEPT ![a] = "locked"] /\ "locked" \in Stages /\ stage[a] = "opened"
      /\ seq' = [seq EXCEPT ![a] = latest[Conv[a]]]
      /\ UNCHANGED <<rows, latest, inserted, view, result>>
  BY DEF Lock, Goto, Stages, answers
<1>2. /\ lock' \in [Convs -> Sends \cup {NoSend}] /\ lock'[Conv[a]] = a
      /\ \A v \in Convs : lock[v] \notin {NoSend, a} => lock'[v] = lock[v]
  BY Same DEF Lock, Inductive, Tables
<1>3. view' = [view EXCEPT ![a] = view[a]] /\ view[a] \in SUBSET Rows
  BY <1>1, Same
<1>4. latest[Conv[a]] \in Nat
  BY Same DEF Inductive, Tables
<1>5. OneInsertPerKey'
  BY <1>1 DEF Inductive, OneInsertPerKey
<1>6. stage'[a] = "locked" /\ seq'[a] = latest[Conv[a]] /\ Stored(Key[a])' = Stored(Key[a])
  BY <1>1 DEF Inductive, Tables, Stored
<1>7. Sound(a)'
  BY SMTT(30), Same, <1>1, <1>2, <1>6 DEF Sound, Holds, Running, Succeeded
<1>8. "none" \in Results \ {"accepted"}
  BY DEF Results
<1> QED BY Moves, <1>1, <1>2, <1>3, <1>4, <1>5, <1>7, <1>8

\* The duplicate check: what it sees is stored, however old its snapshot.
LEMMA LookupKeeps == ASSUME Inductive, NEW a \in Sends, Lookup(a) PROVE Inductive'
<1>1. /\ stage[a] = "locked" /\ UNCHANGED <<rows, latest, lock, inserted, view, result>>
  BY DEF Lookup, answers
<1>2. Visible(a) \subseteq Stored(Key[a])
  BY Same DEF Visible, Sound
<1>3. PICK s \in {"fresh", "duplicate", "conflict"}, k \in Nat :
          /\ stage' = [stage EXCEPT ![a] = s] /\ seq' = [seq EXCEPT ![a] = k]
          /\ s = "fresh" => k = seq[a]
          /\ s # "fresh" => \E m \in Stored(Key[a]) : /\ k = m.seq
                                                      /\ (s = "duplicate" <=> SameCommand(a, m))
  <2>1. CASE Goto(a, "fresh") /\ UNCHANGED seq
    BY <2>1, Same DEF Goto
  <2>2. ASSUME NEW m \in Visible(a), seq' = [seq EXCEPT ![a] = m.seq],
               Goto(a, IF SameCommand(a, m) THEN "duplicate" ELSE "conflict")
        PROVE  \E s \in {"fresh", "duplicate", "conflict"}, k \in Nat :
                   /\ stage' = [stage EXCEPT ![a] = s] /\ seq' = [seq EXCEPT ![a] = k]
                   /\ s = "fresh" => k = seq[a]
                   /\ s # "fresh" => \E n \in Stored(Key[a]) : /\ k = n.seq
                                                               /\ (s = "duplicate" <=> SameCommand(a, n))
    <3>1. m \in Stored(Key[a]) /\ m.seq \in Nat
      BY <1>2, <2>2 DEF Stored, Inductive, Tables, Rows
    <3>2. CASE SameCommand(a, m)
      BY <2>2, <3>1, <3>2 DEF Goto
    <3>3. CASE ~SameCommand(a, m)
      BY <2>2, <3>1, <3>3 DEF Goto
    <3> QED BY <3>2, <3>3
  <2> QED BY <2>1, <2>2 DEF Lookup
<1>4. view' = [view EXCEPT ![a] = view[a]] /\ view[a] \in SUBSET Rows
  BY <1>1, Same
<1>5. stage'[a] = s /\ seq'[a] = k /\ Stored(Key[a])' = Stored(Key[a]) /\ TakenElsewhere(a)' = TakenElsewhere(a)
  BY <1>1, <1>3 DEF Inductive, Tables, Stored, TakenElsewhere
<1>6. s = "duplicate" => Row(a)' \in rows'
  <2> SUFFICES ASSUME s = "duplicate" PROVE Row(a)' \in rows
    BY <1>1
  <2>1. PICK m \in Stored(Key[a]) : k = m.seq /\ SameCommand(a, m)
    BY <1>3
  <2>2. m \in rows /\ m \in Rows /\ m.key = Key[a] /\ m.conv = Conv[a] /\ m.content = Content[a]
    BY <2>1 DEF Stored, SameCommand, Inductive, Tables
  <2>3. m = [key |-> Key[a], conv |-> Conv[a], content |-> Content[a], seq |-> k]
    BY <2>1, <2>2 DEF Rows
  <2> QED BY <2>2, <2>3, <1>5 DEF Row
<1>7. s = "conflict" => TakenElsewhere(a)
  BY <1>3 DEF TakenElsewhere, SameCommand
<1>8. OneInsertPerKey'
  BY <1>1 DEF Inductive, OneInsertPerKey
<1>9. Sound(a)'
  BY SMTT(30), Same, <1>1, <1>3, <1>5, <1>6, <1>7 DEF Sound, Holds, Running, Succeeded
<1>10. /\ "none" \in Results \ {"accepted"} /\ s \in Stages
       /\ lock' \in [Convs -> Sends \cup {NoSend}] /\ \A v \in Convs : lock'[v] = lock[v]
  BY <1>1 DEF Results, Stages, Inductive, Tables
<1> QED BY Moves, <1>1, <1>3, <1>4, <1>8, <1>9, <1>10

\* UPDATE and INSERT: the key is neither stored nor being stored by another send.
LEMMA WriteKeeps == ASSUME Inductive, NEW a \in Sends, Write(a) PROVE Inductive'
<1>1. /\ stage[a] = "fresh" /\ ~KeyBusy(a) /\ Clashes(a) = {}
      /\ seq' = [seq EXCEPT ![a] = seq[a] + 1] /\ inserted' = inserted \cup {a}
      /\ stage' = [stage EXCEPT ![a] = "written"] /\ "written" \in Stages
      /\ UNCHANGED <<rows, latest, lock, view, result>>
  BY DEF Write, Goto, answers, Stages
<1>2. view' = [view EXCEPT ![a] = view[a]] /\ view[a] \in SUBSET Rows /\ seq[a] + 1 \in Nat
  BY SMTT(30), <1>1, Same
<1>3. OneInsertPerKey'
  BY <1>1 DEF Inductive, OneInsertPerKey, KeyBusy
<1>4. /\ stage'[a] = "written" /\ seq'[a] = seq[a] + 1
      /\ Stored(Key[a])' = Stored(Key[a]) /\ Stored(Key[a]) = {}
  BY <1>1 DEF Inductive, Tables, Stored, Clashes
<1>5. Sound(a)'
  BY Same, <1>1, <1>4 DEF Sound, Holds, Running, Succeeded
<1>6. /\ "none" \in Results \ {"accepted"}
      /\ lock' \in [Convs -> Sends \cup {NoSend}] /\ \A v \in Convs : lock'[v] = lock[v]
  BY <1>1 DEF Results, Inductive, Tables
<1> QED BY Moves, <1>1, <1>2, <1>3, <1>5, <1>6

\* The connection is given up; the server keeps the transaction's locks and its
\* uncommitted row for the time being.
LEMMA GivingUpKeeps ==
    ASSUME Inductive, NEW a \in Sends, stage[a] \in Running,
           NEW s \in {"doomed", "unsure"}, Forget(a, s), Answer(a, "failed"),
           UNCHANGED <<rows, latest, lock, inserted, seq>>
    PROVE  Inductive'
<1>1. /\ stage' = [stage EXCEPT ![a] = s] /\ view' = [view EXCEPT ![a] = {}]
      /\ result' = [result EXCEPT ![a] = "failed"] /\ s \in Stages
      /\ "failed" \in Results \ {"accepted"} /\ {} \in SUBSET Rows
  BY DEF Forget, Goto, Answer, Stages, Results
<1>2. seq' = [seq EXCEPT ![a] = seq[a]] /\ seq[a] \in Nat
  BY Same
<1>3. /\ OneInsertPerKey' /\ lock' \in [Convs -> Sends \cup {NoSend}]
      /\ \A v \in Convs : lock'[v] = lock[v]
  BY DEF Inductive, OneInsertPerKey, Tables
<1>4. stage'[a] = s /\ view'[a] = {} /\ result'[a] = "failed" /\ Stored(Key[a])' = Stored(Key[a])
  BY <1>1 DEF Inductive, Tables, Stored
<1>5. Sound(a)'
  BY Same, <1>4 DEF Sound, Holds, Running, Succeeded
<1> QED BY Moves, <1>1, <1>2, <1>3, <1>5

\* COMMIT of a row: it gets the number after the latest, and no other send with
\* the conversation's row or with this key is under way.
LEMMA Stores ==
    ASSUME Inductive, NEW a \in Sends, a \in inserted, Apply(a), Goto(a, "done"),
           view' \in {view, [view EXCEPT ![a] = {}]}, UNCHANGED seq,
           result' \in {result, [result EXCEPT ![a] = "accepted"]}
    PROVE  Inductive'
<1> DEFINE v0 == Conv[a]
           new == Row(a)
<1>1. /\ v0 \in Convs /\ lock[v0] = a /\ Sound(a) /\ latest[v0] \in Nat
      /\ seq[a] = latest[v0] + 1 /\ Stored(Key[a]) = {}
  BY Same DEF Sound, Inductive, Tables
<1>2. /\ rows' = rows \cup {new} /\ latest' = [latest EXCEPT ![v0] = latest[v0] + 1]
      /\ inserted' = inserted \ {a} /\ stage' = [stage EXCEPT ![a] = "done"]
      /\ lock' \in [Convs -> Sends \cup {NoSend}]
      /\ \A v \in Convs : lock[v] \notin {NoSend, a} => lock'[v] = lock[v]
  BY <1>1, ReleaseFrees DEF Apply, Release, Goto, Inductive
<1>3. /\ new \in Rows /\ new.key = Key[a] /\ new.conv = v0 /\ new.seq = latest[v0] + 1 /\ new \notin rows
  BY SMTT(30), <1>1 DEF Row, Rows, Stored
<1>4. Tables'
  <2>1. rows' \subseteq Rows /\ latest' \in [Convs -> Nat] /\ inserted' \subseteq Sends
    BY <1>1, <1>2, <1>3 DEF Inductive, Tables
  <2>2. stage' \in [Sends -> Stages] /\ seq' \in [Sends -> Nat] /\ view' \in [Sends -> SUBSET Rows]
    BY <1>2 DEF Inductive, Tables, Stages
  <2>3. result' \in [Sends -> Results]
    BY DEF Inductive, Tables, Results
  <2> QED BY <2>1, <2>2, <2>3, <1>2 DEF Tables
<1>5. ASSUME NEW v \in Convs PROVE Numbered(v)'
  <2>1. Numbered(v)
    BY DEF Inductive
  <2>2. CASE v # v0
    <3>1. RowsOf(v)' = RowsOf(v) /\ latest'[v] = latest[v]
      BY <1>2, <1>3, <2>2 DEF RowsOf, Inductive, Tables
    <3> QED BY <2>1, <3>1 DEF Numbered
  <2>3. CASE v = v0
    <3>1. RowsOf(v)' = RowsOf(v) \cup {new} /\ new \notin RowsOf(v) /\ latest'[v] = latest[v] + 1
      BY <1>2, <1>3, <2>3 DEF RowsOf, Inductive, Tables
    <3>2. IsFiniteSet(RowsOf(v)') /\ Cardinality(RowsOf(v)') = latest[v] + 1
      BY SMTT(30), <2>1, <3>1, FS_AddElement DEF Numbered
    <3>3. {m.seq : m \in RowsOf(v)'} = 1..(latest[v] + 1)
      <4>1. {m.seq : m \in RowsOf(v)'} = {m.seq : m \in RowsOf(v)} \cup {latest[v] + 1}
        BY SMTT(30), <3>1, <1>3, <2>3
      <4> QED BY SMTT(30), <4>1, <2>1, <1>1, <2>3 DEF Numbered
    <3> QED BY <3>1, <3>2, <3>3 DEF Numbered
  <2> QED BY <2>2, <2>3
<1>6. OneRowPerKey' /\ OneInsertPerKey'
  BY SMTT(30), <1>1, <1>2, <1>3 DEF Inductive, OneRowPerKey, OneInsertPerKey, Stored
<1>7. \A b \in Sends \ {a} : result'[b] = result[b] /\ stage'[b] = stage[b] /\ view'[b] = view[b]
  BY <1>2 DEF Inductive, Tables
<1>8. AcceptedOnce'
  <2>1. ASSUME NEW b \in Sends, result[b] = "accepted", Key[b] = Key[a] PROVE FALSE
    <3>1. Row(b) \in rows /\ Row(b).key = Key[a]
      BY <2>1 DEF Inductive, Sound, Succeeded, Row
    <3> QED BY <3>1, <1>1 DEF Stored
  <2> QED BY <1>7, <2>1 DEF Inductive, AcceptedOnce
<1>9. Sound(a)'
  <2>1. /\ stage'[a] = "done" /\ a \notin inserted' /\ view'[a] \in {view[a], {}}
        /\ Row(a)' = new /\ new \in rows' /\ result'[a] \in {result[a], "accepted"}
    BY <1>2 DEF Inductive, Tables, Row
  <2>2. view[a] \subseteq Stored(Key[a])' /\ (TakenElsewhere(a) => TakenElsewhere(a)')
    BY <1>1, <1>2 DEF Sound, Stored, TakenElsewhere
  <2> QED BY <2>1, <2>2, <1>1 DEF Sound, Holds, Running, Succeeded
<1>10. ASSUME NEW b \in Sends, b # a PROVE Sound(b)'
  <2>1. Sound(b) /\ Conv[b] \in Convs /\ b # NoSend
    BY Same
  <2>2. (stage[b] \in Holds \/ b \in inserted) => Conv[b] # v0
    BY <1>1, <1>10, <2>1 DEF Sound
  <2>3. Conv[b] # v0 => latest'[Conv[b]] = latest[Conv[b]]
    BY <1>2, <2>1 DEF Inductive, Tables
  <2>4. lock[Conv[b]] = b => lock'[Conv[b]] = b
    BY <1>2, <1>10, <2>1
  <2>5. /\ Stored(Key[b]) \subseteq Stored(Key[b])' /\ (TakenElsewhere(b) => TakenElsewhere(b)')
        /\ Row(b)' = Row(b) /\ rows \subseteq rows'
    BY <1>2 DEF Stored, TakenElsewhere, Row
  <2>6. b \in inserted /\ Stored(Key[b]) = {} => Stored(Key[b])' = {}
    BY <1>2, <1>3, <1>10 DEF Stored, Inductive, OneInsertPerKey
  <2>7. (b \in inserted' <=> b \in inserted) /\ seq'[b] = seq[b]
    BY <1>2, <1>10
  <2> QED BY <1>7, <1>10, <2>1, <2>2, <2>3, <2>4, <2>5, <2>6, <2>7 DEF Sound, Holds
<1> QED BY <1>4, <1>5, <1>6, <1>8, <1>9, <1>10 DEF Inductive

\* COMMIT, answered.
LEMMA CommitKeeps == ASSUME Inductive, NEW a \in Sends, Commit(a) PROVE Inductive'
<1>1. /\ Apply(a) /\ Goto(a, "done") /\ view' = [view EXCEPT ![a] = {}] /\ UNCHANGED seq
  BY DEF Commit, Forget
<1>2. CASE stage[a] = "written"
  BY <1>1, <1>2, Same, Stores DEF Commit, Answer, Sound
<1>3. CASE stage[a] = "duplicate"
  <2>1. a \notin inserted /\ Row(a) \in rows
    BY <1>3, Same DEF Sound
  <2>2. /\ UNCHANGED <<rows, latest, seq>> /\ Release(a)
        /\ result' = [result EXCEPT ![a] = "duplicate"]
    BY <1>1, <1>3, <2>1 DEF Apply, Commit, Answer
  <2> QED BY <1>1, <2>1, <2>2, Ends
<1> QED BY <1>2, <1>3 DEF Commit

\* The server ends a transaction that was given up, with its COMMIT or without.
LEMMA SettleKeeps == ASSUME Inductive, NEW a \in Sends, Settle(a) PROVE Inductive'
<1>1. Goto(a, "done") /\ UNCHANGED <<view, seq, result>>
  BY DEF Settle, answers
<1>2. CASE Release(a) /\ UNCHANGED <<rows, latest>>
  BY <1>1, <1>2, Ends
<1>3. CASE Apply(a) /\ a \in inserted
  BY <1>1, <1>3, Stores
<1>4. CASE Apply(a) /\ a \notin inserted
  BY <1>1, <1>4, Ends DEF Apply
<1> QED BY <1>2, <1>3, <1>4 DEF Settle

\* Pulls, and a member who joins, change nothing of what a send works on.
LEMMA FrameKeeps == ASSUME Inductive, UNCHANGED <<tx, stage, result>> PROVE Inductive'
<1>1. UNCHANGED <<rows, latest, lock, inserted, view, seq, stage, result>>
  BY DEF tx
<1>2. Tables' /\ OneRowPerKey' /\ OneInsertPerKey' /\ AcceptedOnce'
  BY <1>1 DEF Inductive, Tables, OneRowPerKey, OneInsertPerKey, AcceptedOnce
<1>3. \A v \in Convs : Numbered(v)'
  BY <1>1 DEF Inductive, Numbered, RowsOf
<1>4. \A a \in Sends : Sound(a)'
  BY SMTT(30), <1>1 DEF Inductive, Sound, Stored, Row, TakenElsewhere
<1> QED BY <1>2, <1>3, <1>4 DEF Inductive

\* Every step, of every send and reader, preserves the invariant.
LEMMA NextInductive == Inductive /\ [Next]_vars => Inductive'
<1> SUFFICES ASSUME Inductive, [Next]_vars PROVE Inductive'
  OBVIOUS
<1>1. ASSUME NEW a \in Sends, Refuse(a) PROVE Inductive'
  BY <1>1, Ends DEF Refuse, Forget, Answer
<1>2. ASSUME NEW a \in Sends, RejectConflict(a) PROVE Inductive'
  <2>1. TakenElsewhere(a)
    BY <1>2, Same DEF RejectConflict, Sound
  <2> QED BY <1>2, <2>1, Ends DEF RejectConflict, Forget, Answer
<1>3. ASSUME NEW a \in Sends, Collide(a) PROVE Inductive'
  BY <1>3, GivingUpKeeps DEF Collide, Running
<1>4. ASSUME NEW a \in Sends, Fail(a) PROVE Inductive'
  <2>1. PICK s \in {"doomed", "unsure"} : Forget(a, s)
    BY <1>4 DEF Fail
  <2> QED BY <1>4, <2>1, GivingUpKeeps DEF Fail
<1>5. ASSUME NEW r \in Readers, Join(r) \/ PullOpen(r) \/ PullRows(r) PROVE Inductive'
  BY <1>5, FrameKeeps DEF Join, PullOpen, PullRows, answers
<1>6. CASE UNCHANGED vars
  BY <1>6, FrameKeeps DEF vars, answers
<1> QED BY <1>1, <1>2, <1>3, <1>4, <1>5, <1>6, OpenKeeps, LockKeeps, LookupKeeps, WriteKeeps,
           CommitKeeps, SettleKeeps DEF Next, Step

\* The invariant in every reachable state.
LEMMA InductiveAlways == SafeSpec => []Inductive
<1> QED BY InitInductive, NextInductive, PTL DEF SafeSpec

-----------------------------------------------------------------------------
(* What a send leaves of the rows and of the other sends.                  *)

\* The rows grow by the one that b had inserted, or not at all.
Grown(b) ==
    \/ UNCHANGED <<rows, latest>>
    \/ b \in inserted /\ rows' = rows \cup {Row(b)} /\ latest' = [latest EXCEPT ![Conv[b]] = seq[b]]

LEMMA ApplyGrows == ASSUME NEW b \in Sends, Apply(b) PROVE Grown(b)
BY DEF Apply, Grown

LEMMA SendFrame ==
    ASSUME Inductive, NEW b \in Sends, Step(b) \/ Fail(b)
    PROVE  /\ Grown(b) /\ UNCHANGED reading
           /\ early' \subseteq early \cup {b} /\ collided' \subseteq collided \cup {b}
           /\ early \subseteq early' /\ collided \subseteq collided'
           /\ \A a \in Sends \ {b} : stage'[a] = stage[a] /\ view'[a] = view[a]
<1>1. Grown(b)
  BY ApplyGrows DEF Step, Fail, Refuse, Open, Lock, Lookup, RejectConflict, Write, Collide, Commit, Settle, Grown
<1>2. /\ early' \subseteq early \cup {b} /\ collided' \subseteq collided \cup {b}
      /\ early \subseteq early' /\ collided \subseteq collided'
  BY DEF Step, Fail, Refuse, Open, Lock, Lookup, RejectConflict, Write, Collide, Commit, Settle, answers
<1>3. (\E s : stage' = [stage EXCEPT ![b] = s]) /\ \E w : view' = [view EXCEPT ![b] = w]
  <2>1. view = [view EXCEPT ![b] = view[b]]
    BY Same
  <2> QED BY <2>1 DEF Step, Fail, Refuse, Open, Lock, Lookup, RejectConflict, Write, Collide, Commit, Settle,
             Forget, Goto
<1>4. \A a \in Sends \ {b} : stage'[a] = stage[a] /\ view'[a] = view[a]
  BY <1>3 DEF Inductive, Tables
<1>5. UNCHANGED reading
  BY DEF Step, Fail, Refuse, Open, Lock, Lookup, RejectConflict, Write, Collide, Commit, Settle
<1> QED BY <1>1, <1>2, <1>4, <1>5

\* A row that is added has a key that was not stored, is in the conversation
\* whose row its send holds, and has the next number.
LEMMA Added ==
    ASSUME Inductive, NEW b \in inserted
    PROVE  /\ b \in Sends /\ Conv[b] \in Convs /\ lock[Conv[b]] = b /\ Stored(Key[b]) = {}
           /\ latest[Conv[b]] \in Nat /\ seq[b] = latest[Conv[b]] + 1
           /\ Row(b).key = Key[b] /\ Row(b).conv = Conv[b] /\ Row(b).seq = seq[b]
<1>1. b \in Sends
  BY DEF Inductive, Tables
<1> QED BY <1>1, Same DEF Sound, Row, Inductive, Tables

LEMMA OthersOverlap ==
    ASSUME Inductive, OverlapInv, NEW b \in Sends, Step(b) \/ Fail(b), NEW a \in Sends, a # b
    PROVE  Overlap(a)'
<1>1. Overlap(a) /\ Sound(a)
  BY Same DEF OverlapInv
<1>2. /\ Grown(b) /\ stage'[a] = stage[a] /\ view'[a] = view[a]
      /\ (a \in early' <=> a \in early) /\ (a \in collided' <=> a \in collided)
  BY SendFrame
<1>3. CASE UNCHANGED rows
  BY <1>1, <1>2, <1>3 DEF Overlap, Stored
<1>4. CASE b \in inserted /\ rows' = rows \cup {Row(b)}
  <2>1. Stored(Key[b]) = {} /\ lock[Conv[b]] = b /\ Row(b).key = Key[b] /\ Row(b).conv = Conv[b]
    BY <1>4, Added
  <2>2. Stored(Key[a]) # {} => Stored(Key[a])' = Stored(Key[a])
    BY <1>4, <2>1 DEF Stored
  <2>3. stage[a] = "fresh" => Conv[a] # Conv[b]
    BY <1>1, <2>1 DEF Sound, Holds
  <2>4. Stored(Key[a])' \subseteq Stored(Key[a]) \cup {Row(b)}
    BY <1>4 DEF Stored
  <2>5. Stored(Key[a]) # {} => Stored(Key[a])' # {}
    BY <2>2
  <2>6. ~Direct(a) /\ (stage[a] = "fresh" \/ a \in collided) => \A m \in Stored(Key[a])' : m.conv # Conv[a]
    BY <1>1, <2>1, <2>2, <2>3, <2>4 DEF Overlap
  <2> QED BY <1>1, <1>2, <2>5, <2>6 DEF Overlap, Direct
<1> QED BY <1>2, <1>3, <1>4 DEF Grown

\* Beginning, locking and the duplicate check.
LEMMA BeginsOverlap ==
    ASSUME Inductive, OverlapInv, NEW a \in Sends, Open(a) \/ Lock(a) \/ Lookup(a)
    PROVE  Overlap(a)'
<1>1. Overlap(a) /\ Stored(Key[a])' = Stored(Key[a]) /\ UNCHANGED collided
  BY DEF OverlapInv, Open, Lock, Lookup, Stored, answers
<1>2. CASE Open(a)
  <2>1. stage[a] = "new" /\ stage'[a] = "opened" /\ (a \in early' => Stored(Key[a]) # {})
    BY <1>1, <1>2 DEF Open, Goto, Inductive, Tables, Overlap
  <2>2. Direct(a) => view'[a] = Stored(Key[a])
    BY <1>2 DEF Open, Inductive, Tables
  <2> QED BY <1>1, <2>1, <2>2 DEF Overlap, Direct
<1>3. CASE Lock(a)
  <2>1. stage[a] = "opened" /\ stage'[a] = "locked" /\ UNCHANGED <<early, view>>
    BY <1>3 DEF Lock, Goto, Inductive, Tables, answers
  <2> QED BY <1>1, <2>1 DEF Overlap, Direct
<1>4. CASE Lookup(a)
  <2>1. /\ stage[a] = "locked" /\ UNCHANGED <<early, view>> /\ stage'[a] \in {"fresh", "duplicate", "conflict"}
        /\ stage'[a] = "fresh" => Visible(a) = {}
    BY <1>4 DEF Lookup, Goto, Inductive, Tables, answers
  <2>2. stage'[a] = "fresh" => a \notin early /\ (~Direct(a) => Stored(Key[a]) = {})
    BY <1>1, <2>1 DEF Overlap, Visible
  <2> QED BY <1>1, <2>1, <2>2 DEF Overlap, Direct
<1> QED BY <1>2, <1>3, <1>4

\* The unique key refuses the INSERT: it is the key, not the number.
LEMMA CollideOverlap ==
    ASSUME Inductive, OverlapInv, NEW a \in Sends, Collide(a)
    PROVE  Overlap(a)'
<1>1. /\ Overlap(a) /\ Stored(Key[a])' = Stored(Key[a]) /\ UNCHANGED early /\ stage[a] = "fresh"
      /\ stage'[a] = "doomed" /\ Clashes(a) # {}
  BY DEF OverlapInv, Collide, Stored, Forget, Goto, Inductive, Tables
<1>2. seq[a] = latest[Conv[a]] /\ latest[Conv[a]] \in Nat /\ Numbered(Conv[a])
  BY <1>1, Same DEF Sound, Inductive, Tables
<1>3. ASSUME NEW m \in RowsOf(Conv[a]), m.seq = seq[a] + 1 PROVE FALSE
  <2>1. m.seq \in 1..latest[Conv[a]]
    BY <1>2 DEF Numbered
  <2> QED BY SMTT(30), <1>2, <1>3, <2>1
<1>4. Stored(Key[a]) # {}
  BY <1>1, <1>3 DEF Clashes
<1> QED BY <1>1, <1>4 DEF Overlap, Direct

\* The steps that end an attempt, or write.
LEMMA EndsOverlap ==
    ASSUME Inductive, OverlapInv, NEW a \in Sends,
           Refuse(a) \/ RejectConflict(a) \/ Write(a) \/ Commit(a) \/ Settle(a) \/ Fail(a)
    PROVE  Overlap(a)'
<1>1. Overlap(a) /\ Grown(a)
  BY SendFrame DEF OverlapInv, Step
<1>2. UNCHANGED <<early, collided>> /\ stage'[a] \in {"done", "written", "doomed", "unsure"}
  BY DEF Refuse, RejectConflict, Write, Commit, Settle, Fail, Forget, Goto, answers, Inductive, Tables
<1>3. CASE UNCHANGED rows
  BY <1>1, <1>2, <1>3 DEF Overlap, Stored, Direct
<1>4. CASE a \in inserted /\ rows' = rows \cup {Row(a)}
  BY <1>1, <1>2, <1>4, Added DEF Overlap, Direct
<1> QED BY <1>1, <1>3, <1>4 DEF Grown

LEMMA OverlapAlways == SafeSpec => []OverlapInv
<1>1. Init => OverlapInv
  <2> SUFFICES ASSUME Init PROVE OverlapInv
    OBVIOUS
  <2>1. early = {} /\ collided = {} /\ \A a \in Sends : stage[a] # "fresh"
    BY DEF Init
  <2> QED BY <2>1 DEF OverlapInv, Overlap
<1>2. Inductive /\ OverlapInv /\ [Next]_vars => OverlapInv'
  <2> SUFFICES ASSUME Inductive, OverlapInv, [Next]_vars PROVE OverlapInv'
    OBVIOUS
  <2>1. ASSUME NEW b \in Sends, Step(b) \/ Fail(b) PROVE OverlapInv'
    <3>1. Overlap(b)'
      BY <2>1, BeginsOverlap, CollideOverlap, EndsOverlap DEF Step
    <3>2. \A a \in Sends \ {b} : Overlap(a)'
      BY <2>1, OthersOverlap
    <3>3. early' \subseteq Sends /\ collided' \subseteq Sends
      BY <2>1, SendFrame DEF OverlapInv
    <3> QED BY <3>1, <3>2, <3>3 DEF OverlapInv
  <2>2. CASE UNCHANGED <<rows, stage, view, early, collided>>
    BY <2>2 DEF OverlapInv, Overlap, Stored, Direct
  <2>3. ASSUME NEW r \in Readers, Join(r) \/ PullOpen(r) \/ PullRows(r) PROVE OverlapInv'
    BY <2>2, <2>3 DEF Join, PullOpen, PullRows, tx, answers
  <2>4. CASE UNCHANGED vars
    BY <2>2, <2>4 DEF vars, tx, answers
  <2> QED BY <2>1, <2>3, <2>4 DEF Next
<1> QED BY <1>1, <1>2, InductiveAlways, PTL DEF SafeSpec

-----------------------------------------------------------------------------
(* What a pull returns.                                                    *)

LEMMA MaxIs ==
    ASSUME NEW S, S \subseteq Int, NEW x \in S, \A y \in S : y <= x
    PROVE  Max(S) = x
<1>1. \A y \in S : x >= y
  BY SMTT(30)
<1>2. Max(S) \in S /\ \A y \in S : Max(S) >= y
  BY <1>1 DEF Max
<1>3. Max(S) \in Int /\ x \in Int /\ Max(S) <= x /\ Max(S) >= x
  BY <1>2
<1> QED BY SMTT(30), <1>3

\* A number of a conversation is that of one row.
LEMMA OneRowPerNumber ==
    ASSUME Inductive, NEW v \in Convs
    PROVE  /\ \A m, n \in RowsOf(v) : m.seq = n.seq => m = n
           /\ \A i \in 1..latest[v] : \E m \in RowsOf(v) : m.seq = i
           /\ \A m \in RowsOf(v) : m.seq \in 1..latest[v]
<1> DEFINE f == [m \in RowsOf(v) |-> m.seq]
<1>1. /\ {m.seq : m \in RowsOf(v)} = 1..latest[v] /\ IsFiniteSet(RowsOf(v))
      /\ Cardinality(RowsOf(v)) = latest[v] /\ latest[v] \in Nat
  BY DEF Inductive, Numbered, Tables
<1>2. f \in Surjection(RowsOf(v), 1..latest[v])
  BY <1>1 DEF Surjection
<1>3. Cardinality(1..latest[v]) = latest[v]
  <2>1. Cardinality(1..latest[v]) = IF 1 > latest[v] THEN 0 ELSE latest[v] - 1 + 1
    BY SMTT(30), <1>1, FS_Interval
  <2> QED BY SMTT(30), <1>1, <2>1
<1>4. f \in Injection(RowsOf(v), 1..latest[v])
  <2> HIDE DEF f
  <2> QED BY <1>1, <1>2, <1>3, FS_SurjSameCardinalityImpliesInj
<1>5. \A m, n \in RowsOf(v) : m.seq = n.seq => m = n
  BY <1>4 DEF Injection, IsInjective
<1> QED BY <1>1, <1>5

\* As many rows as numbers.
LEMMA RangeCount ==
    ASSUME Inductive, NEW v \in Convs, NEW lo \in Nat, NEW hi \in Nat, hi <= latest[v]
    PROVE  Cardinality({m \in RowsOf(v) : lo < m.seq /\ m.seq <= hi}) = IF lo < hi THEN hi - lo ELSE 0
<1> DEFINE D == {m \in RowsOf(v) : lo < m.seq /\ m.seq <= hi}
           f == [m \in D |-> m.seq]
<1>1. IsFiniteSet(D)
  BY FS_Subset DEF Inductive, Numbered
<1>2. \A i \in (lo + 1)..hi : i \in 1..latest[v] /\ lo < i /\ i <= hi
  BY SMTT(30) DEF Inductive, Tables
<1>3. \A m \in D : m.seq \in (lo + 1)..hi
  <2>1. \A m \in D : m.seq \in 1..latest[v]
    BY OneRowPerNumber
  <2> QED BY SMTT(30), <2>1
<1>4. f \in Surjection(D, (lo + 1)..hi)
  <2>1. \A i \in (lo + 1)..hi : \E m \in D : m.seq = i
    <3> TAKE i \in (lo + 1)..hi
    <3>1. i \in 1..latest[v] /\ lo < i /\ i <= hi
      BY <1>2
    <3>2. PICK m \in RowsOf(v) : m.seq = i
      BY <3>1, OneRowPerNumber
    <3> QED BY <3>1, <3>2
  <2> QED BY <1>3, <2>1 DEF Surjection
<1>5. f \in Injection(D, (lo + 1)..hi)
  BY <1>3, OneRowPerNumber DEF Injection, IsInjective
<1>6. Cardinality((lo + 1)..hi) = Cardinality(D)
  <2>1. ExistsBijection(D, (lo + 1)..hi)
    BY <1>4, <1>5 DEF ExistsBijection, Bijection
  <2> HIDE DEF D
  <2> QED BY <1>1, <2>1, FS_Bijection
<1>7. Cardinality((lo + 1)..hi) = IF lo + 1 > hi THEN 0 ELSE hi - (lo + 1) + 1
  BY SMTT(30), FS_Interval
<1>8. Cardinality(D) = IF lo < hi THEN hi - lo ELSE 0
  <2> HIDE DEF D
  <2> QED BY SMTT(30), <1>6, <1>7
<1> QED BY <1>8

\* ORDER BY conversationSeq LIMIT n: as there is no gap, the rows with the next n
\* numbers.
LEMMA SelectedIs ==
    ASSUME Inductive, NEW r \in Readers, EffectiveAfter(r) \in Nat, bound[r] \in Nat,
           bound[r] <= latest[Reads[r]], NEW n \in Nat
    PROVE  Selected(r, n) = {m \in RowsOf(Reads[r]) : /\ EffectiveAfter(r) < m.seq /\ m.seq <= bound[r]
                                                      /\ m.seq <= EffectiveAfter(r) + n}
<1> DEFINE e == EffectiveAfter(r)
           found == {m \in RowsOf(Reads[r]) : e < m.seq /\ m.seq <= bound[r]}
<1>1. Reads[r] \in Convs /\ latest[Reads[r]] \in Nat
  BY StoreConstants DEF Inductive, Tables
<1>2. ASSUME NEW m \in found
      PROVE  Cardinality({o \in found : o.seq < m.seq}) < n <=> m.seq <= e + n
  <2>1. m.seq \in 1..latest[Reads[r]] /\ e < m.seq /\ m.seq <= bound[r]
    BY <1>1, OneRowPerNumber
  <2>2. m.seq - 1 \in Nat /\ m.seq - 1 <= latest[Reads[r]] /\ m.seq \in Int
    BY SMTT(30), <1>1, <2>1
  <2>3. {o \in found : o.seq < m.seq} = {o \in RowsOf(Reads[r]) : e < o.seq /\ o.seq <= m.seq - 1}
    <3>1. ASSUME NEW o \in RowsOf(Reads[r])
          PROVE  e < o.seq /\ o.seq <= bound[r] /\ o.seq < m.seq <=> e < o.seq /\ o.seq <= m.seq - 1
      <4>1. o.seq \in 1..latest[Reads[r]]
        BY <1>1, OneRowPerNumber
      <4> QED BY SMTT(30), <1>1, <2>1, <4>1
    <3> QED BY <3>1
  <2>4. Cardinality({o \in found : o.seq < m.seq}) = IF e < m.seq - 1 THEN m.seq - 1 - e ELSE 0
    <3> DEFINE h == m.seq - 1
    <3>1. e \in Nat /\ h \in Nat /\ h <= latest[Reads[r]]
      BY <2>2
    <3> HIDE DEF e, h
    <3>2. Cardinality({o \in RowsOf(Reads[r]) : e < o.seq /\ o.seq <= h}) = IF e < h THEN h - e ELSE 0
      BY <1>1, <3>1, RangeCount
    <3> USE DEF h
    <3> HIDE DEF found
    <3> QED BY <2>3, <3>2
  <2> HIDE DEF found
  <2> QED BY SMTT(30), <2>1, <2>2, <2>4
<1> QED BY <1>2 DEF Selected

\* The position a pull starts after.
LEMMA AfterIs ==
    ASSUME ReaderInv, NEW r \in Readers, joined[r] # 0
    PROVE  /\ EffectiveAfter(r) \in Nat /\ cursor[r] <= EffectiveAfter(r) /\ joined[r] - 1 <= EffectiveAfter(r)
           /\ EffectiveAfter(r) = cursor[r] \/ EffectiveAfter(r) = joined[r] - 1
<1>1. cursor[r] \in Nat /\ joined[r] \in Nat /\ joined[r] # 0
  BY DEF ReaderInv
<1>2. cursor[r] \in Int /\ joined[r] - 1 \in Nat /\ joined[r] - 1 \in Int
  BY SMTT(30), <1>1
<1>3. CASE joined[r] - 1 <= cursor[r]
  <2>1. \A y \in {cursor[r], joined[r] - 1} : y <= cursor[r]
    BY SMTT(30), <1>1, <1>3
  <2>2. EffectiveAfter(r) = cursor[r]
    BY <1>2, <2>1, MaxIs DEF EffectiveAfter
  <2> QED BY SMTT(30), <1>1, <1>3, <2>2
<1>4. CASE ~(joined[r] - 1 <= cursor[r])
  <2>1. \A y \in {cursor[r], joined[r] - 1} : y <= joined[r] - 1
    BY SMTT(30), <1>1, <1>4
  <2>2. EffectiveAfter(r) = joined[r] - 1
    BY <1>2, <2>1, MaxIs DEF EffectiveAfter
  <2> QED BY SMTT(30), <1>1, <1>2, <1>4, <2>2
<1> QED BY <1>3, <1>4

\* The second statement of a pull: the page has the rows up to the new cursor,
\* and a page that is the last one reaches the bound.
LEMMA PageIs ==
    ASSUME Inductive, ReaderInv, NEW r \in Readers, r \in pulling,
           NEW c, c = Max({EffectiveAfter(r)} \cup {m.seq : m \in Selected(r, PageSize)})
    PROVE  /\ c \in Nat /\ c <= latest[Reads[r]] /\ EffectiveAfter(r) <= c /\ c <= EffectiveAfter(r) + PageSize
           /\ fetched[r] \cup Selected(r, PageSize) =
                  {m \in RowsOf(Reads[r]) : joined[r] <= m.seq /\ m.seq <= c}
           /\ ~(Cardinality(Selected(r, PageSize + 1)) > PageSize) => c >= bound[r]
<1> DEFINE e == EffectiveAfter(r)
           v == Reads[r]
           page == Selected(r, PageSize)
           top == IF bound[r] <= e THEN e ELSE IF bound[r] <= e + PageSize THEN bound[r] ELSE e + PageSize
<1>1. /\ v \in Convs /\ latest[v] \in Nat /\ bound[r] \in Nat /\ cursor[r] \in Nat /\ joined[r] \in Nat
      /\ PageSize \in Nat \ {0} /\ Reader(r)
  BY StoreConstants DEF Inductive, Tables, ReaderInv
<1>2. /\ joined[r] # 0 /\ joined[r] <= latest[v] + 1 /\ cursor[r] <= latest[v] /\ bound[r] <= latest[v]
      /\ fetched[r] = {m \in RowsOf(v) : joined[r] <= m.seq /\ m.seq <= cursor[r]}
  BY <1>1 DEF Reader
<1>3. e \in Nat /\ cursor[r] <= e /\ joined[r] - 1 <= e /\ (e = cursor[r] \/ e = joined[r] - 1)
  BY <1>2, AfterIs
<1>4. PageSize \in Nat /\ PageSize + 1 \in Nat /\ e <= latest[v]
  BY SMTT(30), <1>1, <1>2, <1>3
<1>5. /\ page = {m \in RowsOf(v) : e < m.seq /\ m.seq <= bound[r] /\ m.seq <= e + PageSize}
      /\ Selected(r, PageSize + 1) = {m \in RowsOf(v) : e < m.seq /\ m.seq <= bound[r] /\ m.seq <= e + (PageSize + 1)}
  BY <1>1, <1>2, <1>3, <1>4, SelectedIs
<1>6. \A m \in RowsOf(v) : m.seq \in 1..latest[v] /\ m.seq \in Nat
  <2>1. \A m \in RowsOf(v) : m.seq \in 1..latest[v]
    BY <1>1, OneRowPerNumber
  <2>2. \A i \in 1..latest[v] : i \in Nat
    BY SMTT(30), <1>1
  <2> QED BY <2>1, <2>2
<1> HIDE DEF e, v, page
<1>7. top \in Nat /\ e <= top /\ top <= latest[v] /\ (top # e => top \in 1..latest[v] /\ e < top /\ top <= bound[r] /\ top <= e + PageSize)
  BY SMTT(30), <1>1, <1>2, <1>3, <1>4
<1>8. ASSUME NEW m \in page PROVE m.seq <= top /\ m.seq \in Nat
  <2>1. m.seq \in Nat /\ e < m.seq /\ m.seq <= bound[r] /\ m.seq <= e + PageSize
    BY <1>5, <1>6
  <2> QED BY SMTT(30), <1>1, <1>3, <2>1
<1>9. c = top
  <2> DEFINE S == {e} \cup {m.seq : m \in page}
  <2>1. S \subseteq Int /\ \A y \in S : y <= top
    <3>1. e \in Int /\ e <= top /\ \A i \in Nat : i \in Int
      BY SMTT(30), <1>3, <1>7
    <3> QED BY <1>8, <3>1
  <2>2. top \in S
    <3>1. CASE top # e
      <4>1. PICK m \in RowsOf(v) : m.seq = top
        BY <1>1, <1>7, <3>1, OneRowPerNumber
      <4> QED BY <1>5, <1>7, <3>1, <4>1
    <3> QED BY <3>1
  <2>3. c = Max(S)
    BY DEF e, page
  <2> HIDE DEF S, top
  <2> QED BY <2>1, <2>2, <2>3, MaxIs
<1>10. fetched[r] \cup page = {m \in RowsOf(v) : joined[r] <= m.seq /\ m.seq <= c}
  <2>1. ASSUME NEW m \in RowsOf(v)
        PROVE  \/ joined[r] <= m.seq /\ m.seq <= cursor[r]
               \/ e < m.seq /\ m.seq <= bound[r] /\ m.seq <= e + PageSize
               <=> joined[r] <= m.seq /\ m.seq <= top
    <3>1. m.seq \in Nat
      BY <1>6
    <3> QED BY SMTT(30), <1>1, <1>3, <3>1
  <2> HIDE DEF top
  <2> QED BY <1>2, <1>5, <1>9, <2>1
<1>11. ASSUME ~(Cardinality(Selected(r, PageSize + 1)) > PageSize) PROVE c >= bound[r]
  <2>1. CASE bound[r] <= e + PageSize
    BY SMTT(30), <1>1, <1>3, <1>9, <2>1
  <2>2. CASE ~(bound[r] <= e + PageSize)
    <3> DEFINE hi == e + (PageSize + 1)
    <3>1. hi \in Nat /\ hi <= bound[r] /\ hi <= latest[v] /\ e < hi /\ hi - e = PageSize + 1
      BY SMTT(30), <1>1, <1>2, <1>3, <2>2
    <3>2. Selected(r, PageSize + 1) = {m \in RowsOf(v) : e < m.seq /\ m.seq <= hi}
      <4>1. \A m \in RowsOf(v) : m.seq <= hi => m.seq <= bound[r]
        BY SMTT(30), <1>1, <1>6, <3>1
      <4> QED BY <1>5, <4>1
    <3> HIDE DEF hi
    <3>3. Cardinality(Selected(r, PageSize + 1)) = hi - e
      BY <1>1, <1>3, <3>1, <3>2, RangeCount
    <3> QED BY SMTT(30), <1>1, <1>11, <3>1, <3>3
  <2> QED BY <2>1, <2>2
<1>12. c \in Nat /\ c <= latest[v] /\ e <= c
  BY <1>7, <1>9
<1>13. c <= e + PageSize
  BY SMTT(30), <1>1, <1>3, <1>9
<1> QED BY <1>10, <1>11, <1>12, <1>13 DEF e, v, page

\* A row that is stored is ahead of every cursor.
LEMMA SendKeepsReaders ==
    ASSUME Inductive, ReaderInv, NEW b \in Sends, Step(b) \/ Fail(b)
    PROVE  ReaderInv'
<1>1. Grown(b) /\ UNCHANGED <<joined, pulling, bound, cursor, more, fetched>>
  BY SendFrame DEF reading
<1>2. ASSUME NEW r \in Readers PROVE Reader(r)'
  <2>1. /\ Reader(r) /\ Reads[r] \in Convs /\ latest[Reads[r]] \in Nat
        /\ joined[r] \in Nat /\ cursor[r] \in Nat /\ bound[r] \in Nat
    BY StoreConstants DEF ReaderInv, Inductive, Tables
  <2>2. CASE UNCHANGED <<rows, latest>>
    BY <1>1, <2>1, <2>2 DEF Reader, RowsOf
  <2>3. CASE b \in inserted /\ rows' = rows \cup {Row(b)} /\ latest' = [latest EXCEPT ![Conv[b]] = seq[b]]
    <3>1. /\ Conv[b] \in Convs /\ latest[Conv[b]] \in Nat /\ seq[b] = latest[Conv[b]] + 1
          /\ Row(b).conv = Conv[b] /\ Row(b).seq = latest[Conv[b]] + 1
      BY <2>3, Added
    <3>2. latest'[Reads[r]] = IF Reads[r] = Conv[b] THEN latest[Reads[r]] + 1 ELSE latest[Reads[r]]
      BY <2>1, <2>3, <3>1 DEF Inductive, Tables
    <3>3. /\ joined[r] <= latest'[Reads[r]] + 1 /\ cursor[r] <= latest'[Reads[r]] /\ bound[r] <= latest'[Reads[r]]
          /\ Reads[r] = Conv[b] => ~(latest[Conv[b]] + 1 <= cursor[r])
      <4>1. joined[r] <= latest[Reads[r]] + 1 /\ cursor[r] <= latest[Reads[r]] /\ bound[r] <= latest[Reads[r]]
        BY <2>1 DEF Reader
      <4> QED BY SMTT(30), <2>1, <3>2, <4>1
    <3>4. RowsOf(Reads[r])' = IF Reads[r] = Conv[b] THEN RowsOf(Reads[r]) \cup {Row(b)} ELSE RowsOf(Reads[r])
      BY <2>3, <3>1 DEF RowsOf
    <3>5. {m \in RowsOf(Reads[r])' : joined[r] <= m.seq /\ m.seq <= cursor[r]}
              = {m \in RowsOf(Reads[r]) : joined[r] <= m.seq /\ m.seq <= cursor[r]}
      BY <3>1, <3>3, <3>4
    <3> QED BY <1>1, <2>1, <3>3, <3>5 DEF Reader
  <2> QED BY <1>1, <2>2, <2>3 DEF Grown
<1> QED BY <1>1, <1>2 DEF ReaderInv

\* A step of one reader leaves the others alone.
LEMMA ReaderKeeps ==
    ASSUME Inductive, ReaderInv, NEW r \in Readers, Join(r) \/ PullOpen(r) \/ PullRows(r)
    PROVE  ReaderInv'
<1>1. UNCHANGED <<rows, latest>>
  BY DEF Join, PullOpen, PullRows, tx
<1>2. \A v : RowsOf(v)' = RowsOf(v)
  BY <1>1 DEF RowsOf
<1>3. /\ Reads[r] \in Convs /\ latest[Reads[r]] \in Nat /\ Reader(r) /\ PageSize \in Nat
      /\ joined \in [Readers -> Nat] /\ bound \in [Readers -> Nat] /\ cursor \in [Readers -> Nat]
      /\ more \in [Readers -> BOOLEAN] /\ fetched \in [Readers -> SUBSET Rows]
  BY StoreConstants DEF Inductive, Tables, ReaderInv
<1>4. CASE Join(r)
  <2>1. /\ joined[r] = 0 /\ joined' = [joined EXCEPT ![r] = latest[Reads[r]] + 1]
        /\ UNCHANGED <<pulling, bound, cursor, more, fetched>>
    BY <1>4 DEF Join
  <2>2. latest[Reads[r]] + 1 \in Nat /\ latest[Reads[r]] + 1 # 0 /\ latest[Reads[r]] + 1 <= latest[Reads[r]] + 1
    BY SMTT(30), <1>3
  <2>3. joined' \in [Readers -> Nat] /\ joined'[r] = latest[Reads[r]] + 1 /\ \A k \in Readers \ {r} : joined'[k] = joined[k]
    BY <1>3, <2>1, <2>2
  <2>4. Reader(r)'
    <3>1. \A m \in RowsOf(Reads[r]) : /\ ~(joined[r] <= m.seq /\ m.seq <= cursor[r])
                                      /\ ~(joined'[r] <= m.seq /\ m.seq <= cursor[r])
      <4>1. \A m \in RowsOf(Reads[r]) : m.seq \in 1..latest[Reads[r]]
        BY <1>3, OneRowPerNumber
      <4>2. cursor[r] = 0
        BY <1>3, <2>1 DEF Reader
      <4> QED BY SMTT(30), <1>3, <2>3, <4>1, <4>2
    <3> QED BY <1>1, <1>2, <1>3, <2>1, <2>2, <2>3, <3>1 DEF Reader
  <2>5. ASSUME NEW k \in Readers, k # r PROVE Reader(k)'
    BY <1>1, <1>2, <2>1, <2>3, <2>5 DEF ReaderInv, Reader
  <2> QED BY <1>3, <2>1, <2>3, <2>4, <2>5 DEF ReaderInv
<1>5. CASE PullOpen(r)
  <2>1. /\ joined[r] # 0 /\ pulling' = pulling \cup {r} /\ bound' = [bound EXCEPT ![r] = latest[Reads[r]]]
        /\ UNCHANGED <<joined, cursor, more, fetched>>
    BY <1>5 DEF PullOpen
  <2>2. /\ bound' \in [Readers -> Nat] /\ bound'[r] = latest[Reads[r]] /\ \A k \in Readers \ {r} : bound'[k] = bound[k]
    BY <1>3, <2>1
  <2>3. latest[Reads[r]] <= latest[Reads[r]]
    BY SMTT(30), <1>3
  <2>4. Reader(r)'
    BY <1>1, <1>2, <1>3, <2>1, <2>2, <2>3 DEF Reader
  <2>5. ASSUME NEW k \in Readers, k # r PROVE Reader(k)'
    BY <1>1, <1>2, <2>1, <2>2, <2>5 DEF ReaderInv, Reader
  <2> QED BY <1>3, <2>1, <2>2, <2>4, <2>5 DEF ReaderInv
<1>6. CASE PullRows(r)
  <2> DEFINE c == Max({EffectiveAfter(r)} \cup {m.seq : m \in Selected(r, PageSize)})
             page == Selected(r, PageSize)
             last == Cardinality(Selected(r, PageSize + 1)) > PageSize
  <2>1. /\ r \in pulling /\ pulling' = pulling \ {r} /\ more' = [more EXCEPT ![r] = last]
        /\ cursor' = [cursor EXCEPT ![r] = c] /\ fetched' = [fetched EXCEPT ![r] = @ \cup page]
        /\ UNCHANGED <<joined, bound>>
    BY <1>6 DEF PullRows
  <2>2. /\ c \in Nat /\ c <= latest[Reads[r]]
        /\ fetched[r] \cup page = {m \in RowsOf(Reads[r]) : joined[r] <= m.seq /\ m.seq <= c}
        /\ ~last => c >= bound[r]
    BY <2>1, PageIs
  <2>3. page \subseteq Rows /\ last \in BOOLEAN
    <3>1. page \subseteq Rows
      BY DEF Selected, RowsOf, Inductive, Tables
    <3>2. last \in BOOLEAN
      BY SMTT(30)
    <3> QED BY <3>1, <3>2
  <2> HIDE DEF c, page, last
  <2>4. /\ cursor' \in [Readers -> Nat] /\ more' \in [Readers -> BOOLEAN] /\ fetched' \in [Readers -> SUBSET Rows]
    BY <1>3, <2>1, <2>2, <2>3
  <2>5. cursor'[r] = c /\ more'[r] = last /\ fetched'[r] = fetched[r] \cup page
    BY <1>3, <2>1
  <2>6. \A k \in Readers \ {r} : cursor'[k] = cursor[k] /\ more'[k] = more[k] /\ fetched'[k] = fetched[k]
    BY <1>3, <2>1
  <2>7. Reader(r)'
    BY <1>1, <1>2, <1>3, <2>1, <2>2, <2>5 DEF Reader
  <2>8. ASSUME NEW k \in Readers, k # r PROVE Reader(k)'
    BY <1>1, <1>2, <2>1, <2>6, <2>8 DEF ReaderInv, Reader
  <2> QED BY <1>3, <2>1, <2>4, <2>7, <2>8 DEF ReaderInv
<1> QED BY <1>4, <1>5, <1>6

LEMMA ReaderAlways == SafeSpec => []ReaderInv
<1>1. Init => ReaderInv
  <2> SUFFICES ASSUME Init PROVE ReaderInv
    OBVIOUS
  <2>1. 0 <= 0 /\ 0 <= 0 + 1 /\ 1 <= 0 + 1 /\ 0 \in Nat /\ 1 \in Nat /\ 0 # 1
    BY SMTT(30)
  <2>2. /\ joined \in [Readers -> Nat] /\ bound \in [Readers -> Nat] /\ cursor \in [Readers -> Nat]
        /\ more \in [Readers -> BOOLEAN] /\ fetched \in [Readers -> SUBSET Rows]
    BY <2>1 DEF Init
  <2>3. ASSUME NEW r \in Readers PROVE Reader(r)
    <3>1. /\ joined[r] \in {0, 1} /\ latest[Reads[r]] = 0 /\ cursor[r] = 0 /\ bound[r] = 0 /\ more[r] = TRUE
          /\ fetched[r] = {} /\ rows = {} /\ pulling = {}
      BY StoreConstants DEF Init
    <3> QED BY <2>1, <3>1 DEF Reader, RowsOf
  <2> QED BY <2>2, <2>3 DEF ReaderInv
<1>2. Inductive /\ ReaderInv /\ [Next]_vars => ReaderInv'
  <2> SUFFICES ASSUME Inductive, ReaderInv, [Next]_vars PROVE ReaderInv'
    OBVIOUS
  <2>1. CASE UNCHANGED vars
    BY <2>1 DEF vars, tx, reading, ReaderInv, Reader, RowsOf
  <2> QED BY <2>1, SendKeepsReaders, ReaderKeeps DEF Next
<1> QED BY <1>1, <1>2, InductiveAlways, PTL DEF SafeSpec

\* A retry that begins after its first attempt is stored is told so and never
\* fails on the unique key, and a group message does so only when another
\* conversation has its key: accept_direct_text and accept_group_message answer
\* MysqlFailed for that reason only when two attempts overlap.
THEOREM OnlyOverlapCollidesAlways == Spec => []OnlyOverlapCollides
<1>1. OverlapInv => OnlyOverlapCollides
  BY DEF OverlapInv, Overlap, OnlyOverlapCollides
<1> QED BY <1>1, OverlapAlways, PTL DEF Spec

\* sync_conversation, pulled page after page with any page size: the client has
\* every row from the one it joined at to its cursor, and is at latest_seq when
\* it is told that there is no more.
THEOREM PullSkipsNothingAlways == Spec => []PullSkipsNothing
<1>1. ReaderInv => PullSkipsNothing
  BY DEF ReaderInv, Reader, PullSkipsNothing
<1> QED BY <1>1, ReaderAlways, PTL DEF Spec

\* accept_direct_text and accept_group_message number the messages of every
\* conversation 1, 2, 3 ... without a gap, however their transactions interleave,
\* fail or are committed unnoticed.
THEOREM GaplessAlways == Spec => []Gapless
<1>1. Inductive => Gapless
  BY DEF Inductive, Numbered, Gapless
<1> QED BY <1>1, InductiveAlways, PTL DEF Spec

\* A sender's clientMessageId is stored, and forwarded, at most once, although
\* the duplicate check of a direct message reads an old snapshot.
THEOREM StoredOnceAlways == Spec => []StoredOnce
<1>1. Inductive => StoredOnce
  BY DEF Inductive, OneRowPerKey, AcceptedOnce, StoredOnce
<1> QED BY <1>1, InductiveAlways, PTL DEF Spec

\* A success always names a stored row with the command's own content and number,
\* a conflict one that the key already stands for.
THEOREM AnswersAgreeAlways == Spec => []AnswersAgree
<1>1. Inductive => AnswersAgree
  BY DEF Inductive, Sound, TakenElsewhere, AnswersAgree
<1> QED BY <1>1, InductiveAlways, PTL DEF Spec

-----------------------------------------------------------------------------
(* The store implements ConversationLog.                                  *)

Text(m) == [key |-> m.key, content |-> m.content]

LEMMA MessageIs ==
    ASSUME NEW S, NEW m \in S, \A o \in S : o.seq = m.seq => o = m
    PROVE  MessageAt(S, m.seq) = Text(m)
<1>1. (CHOOSE o \in S : o.seq = m.seq) = m
  OBVIOUS
<1> QED BY <1>1 DEF MessageAt, Text

\* Sequences as functions.
LEMMA AppendIs ==
    ASSUME NEW T, NEW k \in Nat, NEW f \in [1..k -> T], NEW g \in [1..(k + 1) -> T], \A n \in 1..k : g[n] = f[n]
    PROVE  g = Append(f, g[k + 1])
<1>1. f \in Seq(T) /\ Len(f) = k /\ g \in Seq(T) /\ Len(g) = k + 1
  BY SMTT(30)
<1>2. g[k + 1] \in T
  BY SMTT(30)
<1> QED BY SMTT(30), <1>1, <1>2

LEMMA SectionIs ==
    ASSUME NEW T, NEW k \in Nat, NEW f \in [1..k -> T], NEW i \in Nat, i # 0, NEW j \in Nat, j <= k, i <= j + 1,
           NEW g \in [1..(j + 1 - i) -> T], \A n \in 1..(j + 1 - i) : g[n] = f[n + i - 1]
    PROVE  g = SubSeq(f, i, j)
<1>1. f \in Seq(T) /\ Len(f) = k /\ g \in Seq(T) /\ Len(g) = j + 1 - i
  BY SMTT(30)
<1>2. CASE i = j + 1
  <2>1. g = << >>
    BY SMTT(30), <1>1, <1>2
  <2>2. SubSeq(f, i, j) = << >>
    BY SMTT(30), <1>1, <1>2
  <2> QED BY <2>1, <2>2
<1>3. CASE i <= j
  <2>1. SubSeq(f, i, j) \in Seq(T) /\ Len(SubSeq(f, i, j)) = j + 1 - i
    BY SMTT(30), <1>1, <1>3
  <2>2. \A n \in 1..(j + 1 - i) : SubSeq(f, i, j)[n] = f[n + i - 1]
    BY SMTT(30), <1>1, <1>3
  <2>3. PICK h \in Seq(T) : h = SubSeq(f, i, j)
    BY <2>1
  <2>4. Len(h) = j + 1 - i /\ \A n \in 1..(j + 1 - i) : h[n] = g[n]
    BY <2>1, <2>2, <2>3
  <2>5. h = g
    BY SMTT(30), <1>1, <2>4
  <2> QED BY <2>3, <2>5
<1> QED BY SMTT(30), <1>2, <1>3

Texts == [key : {Key[a] : a \in Sends}, content : {Content[a] : a \in Sends}]

\* The log of a conversation has the text of the row with each number.
LEMMA LogIs ==
    ASSUME Inductive, NEW v \in Convs
    PROVE  /\ latest[v] \in Nat /\ LogOf(v) \in [1..latest[v] -> Texts] /\ Len(LogOf(v)) = latest[v]
           /\ \A m \in RowsOf(v) : m.seq \in 1..latest[v] /\ LogOf(v)[m.seq] = Text(m)
           /\ \A n \in 1..latest[v] : \E m \in RowsOf(v) : m.seq = n /\ LogOf(v)[n] = Text(m)
<1>1. latest[v] \in Nat /\ rows \subseteq Rows
  BY DEF Inductive, Tables
<1>2. ASSUME NEW m \in RowsOf(v) PROVE m.seq \in 1..latest[v] /\ LogOf(v)[m.seq] = Text(m) /\ Text(m) \in Texts
  <2>1. m.seq \in 1..latest[v] /\ \A o \in RowsOf(v) : o.seq = m.seq => o = m
    BY OneRowPerNumber
  <2>2. LogOf(v)[m.seq] = MessageAt(RowsOf(v), m.seq)
    BY <2>1 DEF LogOf
  <2>3. m \in Rows
    BY <1>1 DEF RowsOf
  <2>4. Text(m) \in Texts
    BY SMTT(30), <2>3 DEF Text, Texts, Rows
  <2> QED BY <2>1, <2>2, <2>4, MessageIs
<1>3. ASSUME NEW n \in 1..latest[v] PROVE \E m \in RowsOf(v) : m.seq = n /\ LogOf(v)[n] = Text(m) /\ Text(m) \in Texts
  BY <1>2, OneRowPerNumber
<1>4. LogOf(v) \in [1..latest[v] -> Texts]
  <2>1. \A n \in 1..latest[v] : LogOf(v)[n] \in Texts
    BY <1>3
  <2>2. LogOf(v) = [n \in 1..latest[v] |-> MessageAt(RowsOf(v), n)]
    BY DEF LogOf
  <2> QED BY <2>1, <2>2
<1>5. Len(LogOf(v)) = latest[v]
  BY SMTT(30), <1>1, <1>4
<1> QED BY <1>1, <1>2, <1>3, <1>4, <1>5

\* What a reader has: the log from where it joined.
Portion(r, j, c) == {m \in RowsOf(Reads[r]) : j <= m.seq /\ m.seq <= c}

LEMMA PulledIs ==
    ASSUME Inductive, NEW r \in Readers, NEW j \in Nat, j # 0, NEW c \in Nat, c <= latest[Reads[r]], j <= c + 1
    PROVE  [n \in 1..(c + 1 - j) |-> MessageAt(Portion(r, j, c), n + j - 1)] = SubSeq(LogOf(Reads[r]), j, c)
<1> DEFINE v == Reads[r]
           S == Portion(r, j, c)
           g == [n \in 1..(c + 1 - j) |-> MessageAt(S, n + j - 1)]
<1>1. v \in Convs
  BY StoreConstants
<1>2. /\ latest[v] \in Nat /\ LogOf(v) \in [1..latest[v] -> Texts]
      /\ \A n \in 1..latest[v] : \E m \in RowsOf(v) : m.seq = n /\ LogOf(v)[n] = Text(m)
  BY <1>1, LogIs
<1>3. ASSUME NEW n \in 1..(c + 1 - j) PROVE g[n] = LogOf(v)[n + j - 1] /\ g[n] \in Texts
  <2>1. PICK i : i = n + j - 1
    OBVIOUS
  <2>2. i \in 1..latest[v] /\ j <= i /\ i <= c
    BY SMTT(30), <1>2, <2>1
  <2>3. PICK m \in RowsOf(v) : m.seq = i /\ LogOf(v)[i] = Text(m)
    BY <1>2, <2>2
  <2>4. m \in S /\ \A o \in S : o.seq = m.seq => o = m
    BY <1>1, <2>2, <2>3, OneRowPerNumber DEF Portion
  <2>5. MessageAt(S, i) = Text(m)
    BY <2>3, <2>4, MessageIs
  <2>6. LogOf(v)[i] \in Texts
    BY <1>2, <2>2
  <2> QED BY <2>1, <2>3, <2>5, <2>6
<1>4. g \in [1..(c + 1 - j) -> Texts]
  BY <1>3
<1> HIDE DEF g, v
<1>5. g = SubSeq(LogOf(v), j, c)
  <2>1. j \in Nat /\ j # 0 /\ c <= latest[v]
    BY DEF v
  <2> QED BY SMTT(30), <1>2, <1>3, <1>4, <2>1, SectionIs
<1> QED BY <1>5 DEF g, v

LEMMA LogsRest == ASSUME UNCHANGED <<rows, latest>> PROVE Logs' = Logs
BY DEF Logs, LogOf, RowsOf

LEMMA PulledRests == ASSUME UNCHANGED reading PROVE Pulled' = Pulled /\ joined' = joined
BY DEF Pulled, PulledBy, EffectiveAfter, reading

\* A send is answered.
LEMMA Heard ==
    ASSUME Inductive, NEW a \in Sends, result[a] = "none", NEW x, result' = [result EXCEPT ![a] = x],
           UNCHANGED <<seq, reading>>
    PROVE  Log!Hear(a, x, IF x \in Succeeded THEN seq[a] ELSE 0)
<1>1. DOMAIN result = Sends
  BY DEF Inductive, Tables
<1>2. ASSUME NEW b \in Sends
      PROVE  NumberOf(b)' = IF b = a THEN IF x \in Succeeded THEN seq[a] ELSE 0 ELSE NumberOf(b)
  <2>1. CASE b = a
    <3>1. result'[b] = x
      BY <1>1, <2>1
    <3> QED BY <2>1, <3>1 DEF NumberOf
  <2>2. CASE b # a
    <3>1. result'[b] = result[b]
      BY <1>1, <2>2
    <3> QED BY <2>2, <3>1 DEF NumberOf
  <2> QED BY <2>1, <2>2
<1>3. Numbers' = [Numbers EXCEPT ![a] = IF x \in Succeeded THEN seq[a] ELSE 0]
  BY <1>2 DEF Numbers
<1> QED BY <1>3, PulledRests DEF Log!Hear

\* A number that was not told yet may change.
LEMMA NumbersRest ==
    ASSUME Inductive, NEW a \in Sends, result[a] = "none", UNCHANGED result, NEW k, seq' = [seq EXCEPT ![a] = k]
    PROVE  Numbers' = Numbers
<1>1. DOMAIN seq = Sends
  BY DEF Inductive, Tables
<1>2. ASSUME NEW b \in Sends PROVE NumberOf(b)' = NumberOf(b)
  <2>1. CASE b = a
    BY <2>1 DEF NumberOf, Succeeded
  <2>2. CASE b # a
    <3>1. seq'[b] = seq[b]
      BY <1>1, <2>2
    <3> QED BY <3>1 DEF NumberOf
  <2> QED BY <2>1, <2>2
<1> QED BY <1>2 DEF Numbers

\* The COMMIT of a row appends its message.
LEMMA Appends ==
    ASSUME Inductive, NEW a \in inserted, rows' = rows \cup {Row(a)}, latest' = [latest EXCEPT ![Conv[a]] = seq[a]]
    PROVE  Log!Add(a) /\ seq[a] = Len(Logs[Conv[a]]) + 1
<1> DEFINE w == Conv[a]
<1>1. /\ a \in Sends /\ w \in Convs /\ Stored(Key[a]) = {} /\ latest[w] \in Nat /\ seq[a] = latest[w] + 1
      /\ Row(a).key = Key[a] /\ Row(a).conv = w /\ Row(a).seq = latest[w] + 1
  BY Added
<1>2. DOMAIN latest = Convs
  BY DEF Inductive, Tables
<1>3. ASSUME NEW v \in Convs, NEW n \in DOMAIN Logs[v] PROVE Logs[v][n].key # Key[a]
  <2>1. Logs[v] = LogOf(v) /\ DOMAIN LogOf(v) = 1..latest[v]
    BY DEF Logs, LogOf
  <2>2. PICK m \in RowsOf(v) : LogOf(v)[n] = Text(m)
    BY <1>3, <2>1, LogIs
  <2>3. m.key # Key[a]
    BY <1>1 DEF RowsOf, Stored
  <2>4. Text(m).key = m.key
    BY SMTT(30) DEF Text
  <2> QED BY <2>1, <2>2, <2>3, <2>4
<1>4. ASSUME NEW v \in Convs, v # w PROVE LogOf(v)' = LogOf(v)
  <2>1. RowsOf(v)' = RowsOf(v) /\ latest'[v] = latest[v]
    BY <1>1, <1>2, <1>4 DEF RowsOf
  <2> QED BY <2>1 DEF LogOf
<1>5. LogOf(w)' = Append(LogOf(w), Log!Message(a))
  <2> DEFINE k == latest[w]
             f == LogOf(w)
             g == LogOf(w)'
             S == RowsOf(w) \cup {Row(a)}
  <2>1. RowsOf(w)' = S /\ latest'[w] = k + 1
    BY <1>1, <1>2 DEF RowsOf
  <2>2. g = [n \in 1..(k + 1) |-> MessageAt(S, n)]
    BY <2>1 DEF LogOf
  <2>3. /\ k \in Nat /\ f \in [1..k -> Texts]
        /\ \A m \in RowsOf(w) : m.seq \in 1..k
        /\ \A n \in 1..k : \E m \in RowsOf(w) : m.seq = n /\ f[n] = Text(m)
    BY <1>1, LogIs
  <2>4. k + 1 \in 1..(k + 1) /\ k + 1 \notin 1..k /\ 1..k \subseteq 1..(k + 1) /\ \A n \in 1..(k + 1) : n \in 1..k \/ n = k + 1
    BY SMTT(30), <2>3
  <2> HIDE DEF k, f, g
  <2>5. ASSUME NEW n \in 1..k PROVE g[n] = f[n]
    <3>1. PICK m \in RowsOf(w) : m.seq = n /\ f[n] = Text(m)
      BY <2>3
    <3>2. \A o \in S : o.seq = m.seq => o = m
      BY <1>1, <2>4, <3>1, OneRowPerNumber DEF k
    <3>3. MessageAt(S, n) = Text(m)
      BY <3>1, <3>2, MessageIs
    <3> QED BY <2>2, <2>4, <3>1, <3>3
  <2>6. g[k + 1] = Log!Message(a)
    <3>1. Row(a) \in S /\ Row(a).seq = k + 1 /\ \A o \in S : o.seq = k + 1 => o = Row(a)
      BY <1>1, <2>3, <2>4 DEF k
    <3>2. MessageAt(S, k + 1) = Text(Row(a))
      BY <3>1, MessageIs
    <3>3. Text(Row(a)) = Log!Message(a)
      BY DEF Text, Row, Log!Message
    <3> QED BY <2>2, <2>4, <3>2, <3>3
  <2>7. Log!Message(a) \in Texts
    BY SMTT(30), <1>1 DEF Log!Message, Texts
  <2>8. g \in [1..(k + 1) -> Texts]
    <3>1. \A n \in 1..(k + 1) : g[n] \in Texts
      BY <2>3, <2>4, <2>5, <2>6, <2>7
    <3> QED BY <2>2, <3>1
  <2>9. g = Append(f, g[k + 1])
    BY <2>3, <2>5, <2>8, AppendIs
  <2> QED BY <2>6, <2>9 DEF f, g
<1>6. Logs' = [Logs EXCEPT ![w] = Append(Logs[w], Log!Message(a))]
  BY <1>1, <1>4, <1>5 DEF Logs
<1>7. Logs[w] = LogOf(w)
  BY <1>1 DEF Logs
<1>8. seq[a] = Len(Logs[w]) + 1
  BY <1>1, <1>7, LogIs
<1> QED BY <1>3, <1>6, <1>8 DEF Log!Add

LEMMA TakenIs ==
    ASSUME Inductive, NEW a \in Sends, TakenElsewhere(a)
    PROVE  \E v \in Convs : \E n \in DOMAIN Logs[v] :
               Logs[v][n].key = Key[a] /\ (v # Conv[a] \/ Logs[v][n] # Log!Message(a))
<1>1. PICK m \in rows : m.key = Key[a] /\ (m.conv # Conv[a] \/ m.content # Content[a])
  BY DEF TakenElsewhere, Stored
<1>2. m \in Rows
  BY DEF Inductive, Tables
<1>3. m.conv \in Convs
  BY SMTT(30), <1>2 DEF Rows
<1>4. m \in RowsOf(m.conv)
  BY DEF RowsOf
<1>5. /\ Logs[m.conv] = LogOf(m.conv) /\ DOMAIN LogOf(m.conv) = 1..latest[m.conv]
  BY <1>3 DEF Logs, LogOf
<1>6. m.seq \in 1..latest[m.conv] /\ LogOf(m.conv)[m.seq] = Text(m)
  BY <1>3, <1>4, LogIs
<1>7. Text(m).key = m.key /\ Text(m).content = m.content /\ Log!Message(a).content = Content[a]
  BY SMTT(30) DEF Text, Log!Message
<1>8. /\ m.seq \in DOMAIN Logs[m.conv] /\ Logs[m.conv][m.seq].key = Key[a]
      /\ m.conv # Conv[a] \/ Logs[m.conv][m.seq] # Log!Message(a)
  BY <1>1, <1>5, <1>6, <1>7
<1> QED BY <1>3, <1>8

LEMMA RepeatIs ==
    ASSUME Inductive, NEW a \in Sends, Row(a) \in rows
    PROVE  seq[a] \in DOMAIN Logs[Conv[a]] /\ Logs[Conv[a]][seq[a]] = Log!Message(a)
<1>1. Row(a).conv = Conv[a] /\ Row(a).seq = seq[a] /\ Text(Row(a)) = Log!Message(a)
  BY SMTT(30) DEF Row, Text, Log!Message
<1>2. Row(a) \in RowsOf(Conv[a]) /\ Conv[a] \in Convs
  BY <1>1, StoreConstants DEF RowsOf
<1>3. PICK m \in RowsOf(Conv[a]) : m = Row(a)
  BY <1>2
<1>4. m.seq \in 1..latest[Conv[a]] /\ LogOf(Conv[a])[m.seq] = Text(m)
  BY <1>2, LogIs
<1>5. seq[a] \in 1..latest[Conv[a]] /\ LogOf(Conv[a])[seq[a]] = Log!Message(a)
  BY <1>1, <1>3, <1>4
<1> QED BY <1>2, <1>5 DEF Logs, LogOf

\* What a step of a send is to the clients.
LEMMA SendRefines ==
    ASSUME Inductive, NEW a \in Sends, Step(a) \/ Fail(a)
    PROVE  Log!Next \/ UNCHANGED Log!vars
<1> DEFINE Goal == Log!Next \/ UNCHANGED Log!vars
<1>1. UNCHANGED reading /\ Sound(a)
  BY SendFrame, Same
<1>2. ASSUME UNCHANGED <<rows, latest, result, seq>> PROVE Goal
  <2>1. Numbers' = Numbers
    BY <1>2 DEF Numbers, NumberOf
  <2> QED BY <1>1, <1>2, <2>1, LogsRest, PulledRests DEF Log!vars
<1>3. ASSUME UNCHANGED <<rows, latest, result>>, result[a] = "none", NEW k, seq' = [seq EXCEPT ![a] = k] PROVE Goal
  BY <1>1, <1>3, NumbersRest, LogsRest, PulledRests DEF Log!vars
<1>4. ASSUME UNCHANGED <<rows, latest, seq>>, result[a] = "none", NEW x \in {"refused", "failed"}, Answer(a, x) PROVE Goal
  <2>1. Log!Hear(a, x, 0)
    BY <1>1, <1>4, Heard DEF Answer, Succeeded
  <2>2. Log!Decline(a)
    BY <1>4, <2>1, LogsRest DEF Log!Decline
  <2> QED BY <2>2 DEF Log!Next
<1>5. CASE Refuse(a)
  <2>1. result[a] = "none"
    BY <1>1, <1>5 DEF Refuse, Sound, Running
  <2> QED BY <1>4, <1>5, <2>1 DEF Refuse
<1>6. CASE Open(a)
  BY <1>2, <1>6 DEF Open
<1>7. CASE Lock(a)
  <2>1. result[a] = "none"
    BY <1>1, <1>7 DEF Lock, Sound, Running
  <2> QED BY <1>3, <1>7, <2>1 DEF Lock, answers
<1>8. CASE Lookup(a)
  <2>1. result[a] = "none"
    BY <1>1, <1>8 DEF Lookup, Sound, Running
  <2> QED BY <1>2, <1>3, <1>8, <2>1 DEF Lookup, answers
<1>9. CASE RejectConflict(a)
  <2>1. result[a] = "none" /\ TakenElsewhere(a)
    BY <1>1, <1>9 DEF RejectConflict, Sound, Running
  <2>2. Log!Hear(a, "conflict", 0) /\ Logs' = Logs
    BY <1>1, <1>9, <2>1, Heard, LogsRest DEF RejectConflict, Answer, Succeeded
  <2>3. Log!Conflict(a)
    BY <2>1, <2>2, TakenIs DEF Log!Conflict
  <2> QED BY <2>3 DEF Log!Next
<1>10. CASE Write(a)
  <2>1. result[a] = "none" /\ seq' = [seq EXCEPT ![a] = seq[a] + 1]
    BY <1>1, <1>10 DEF Write, Sound, Running
  <2> QED BY <1>3, <1>10, <2>1 DEF Write, answers
<1>11. CASE Collide(a)
  <2>1. result[a] = "none"
    BY <1>1, <1>11 DEF Collide, Sound, Running
  <2> QED BY <1>4, <1>11, <2>1 DEF Collide
<1>12. CASE Fail(a)
  <2>1. result[a] = "none"
    BY <1>1, <1>12 DEF Fail, Sound, Running
  <2> QED BY <1>4, <1>12, <2>1 DEF Fail
<1>13. CASE Commit(a) /\ stage[a] = "written"
  <2>1. result[a] = "none" /\ a \in inserted
    BY <1>1, <1>13 DEF Sound, Running
  <2>2. /\ rows' = rows \cup {Row(a)} /\ latest' = [latest EXCEPT ![Conv[a]] = seq[a]] /\ UNCHANGED seq
        /\ result' = [result EXCEPT ![a] = "accepted"]
    BY <1>13, <2>1 DEF Commit, Apply, Answer
  <2>3. Log!Hear(a, "accepted", seq[a])
    BY <1>1, <2>1, <2>2, Heard DEF Succeeded
  <2>4. Log!Accept(a)
    BY <2>1, <2>2, <2>3, Appends DEF Log!Accept
  <2> QED BY <2>4 DEF Log!Next
<1>14. CASE Commit(a) /\ stage[a] = "duplicate"
  <2>1. result[a] = "none" /\ a \notin inserted /\ Row(a) \in rows
    BY <1>1, <1>14 DEF Sound, Running
  <2>2. UNCHANGED <<rows, latest, seq>> /\ result' = [result EXCEPT ![a] = "duplicate"]
    BY <1>14, <2>1 DEF Commit, Apply, Answer
  <2>3. Log!Hear(a, "duplicate", seq[a]) /\ Logs' = Logs
    BY <1>1, <2>1, <2>2, Heard, LogsRest DEF Succeeded
  <2>4. Log!Repeat(a)
    BY <2>1, <2>3, RepeatIs DEF Log!Repeat
  <2> QED BY <2>4 DEF Log!Next
<1>15. CASE Settle(a)
  <2>1. UNCHANGED <<result, seq>>
    BY <1>15 DEF Settle, answers
  <2>2. CASE UNCHANGED <<rows, latest>>
    BY <1>2, <2>1, <2>2
  <2>3. CASE stage[a] = "unsure" /\ Apply(a) /\ a \in inserted
    <3>1. result[a] = "failed"
      BY <1>1, <2>3 DEF Sound
    <3>2. Numbers' = Numbers
      BY <2>1 DEF Numbers, NumberOf
    <3>3. Log!Add(a)
      BY <2>3, Appends DEF Apply
    <3>4. Log!AddLate(a)
      BY <1>1, <2>1, <3>1, <3>2, <3>3, PulledRests DEF Log!AddLate
    <3> QED BY <3>4 DEF Log!Next
  <2> QED BY <1>15, <2>2, <2>3 DEF Settle, Apply
<1> QED BY <1>5, <1>6, <1>7, <1>8, <1>9, <1>10, <1>11, <1>12, <1>13, <1>14, <1>15 DEF Step, Commit

\* How much a reader has.
LEMMA PulledLength ==
    ASSUME Inductive, ReaderInv, NEW r \in Readers, joined[r] # 0
    PROVE  Len(PulledBy(r)) = EffectiveAfter(r) + 1 - joined[r]
<1> DEFINE e == EffectiveAfter(r)
           v == Reads[r]
<1>1. /\ v \in Convs /\ latest[v] \in Nat /\ cursor[r] \in Nat /\ joined[r] \in Nat /\ Reader(r)
  BY StoreConstants DEF Inductive, Tables, ReaderInv
<1>2. e \in Nat /\ cursor[r] <= e /\ joined[r] - 1 <= e /\ (e = cursor[r] \/ e = joined[r] - 1)
  BY <1>1, AfterIs
<1> HIDE DEF e
<1>3. e + 1 - joined[r] \in Nat
  BY SMTT(30), <1>1, <1>2
<1>4. PulledBy(r) = [n \in 1..(e + 1 - joined[r]) |-> MessageAt(fetched[r], n + joined[r] - 1)]
  BY DEF PulledBy, e
<1>5. ASSUME NEW k \in Nat, NEW g, DOMAIN g = 1..k, g \in [1..k -> {g[n] : n \in 1..k}] PROVE Len(g) = k
  BY SMTT(30), <1>5
<1>6. PICK k \in Nat : k = e + 1 - joined[r]
  BY <1>3
<1>7. DOMAIN PulledBy(r) = 1..k /\ PulledBy(r) \in [1..k -> {PulledBy(r)[n] : n \in 1..k}]
  BY <1>4, <1>6
<1> QED BY <1>5, <1>6, <1>7 DEF e

LEMMA OthersPulled ==
    ASSUME NEW r \in Readers, NEW k \in Readers, joined'[k] = joined[k], cursor'[k] = cursor[k], fetched'[k] = fetched[k]
    PROVE  PulledBy(k)' = PulledBy(k)
BY DEF PulledBy, EffectiveAfter

\* A new member, and a page, to the clients.
LEMMA JoinRefines ==
    ASSUME Inductive, ReaderInv, NEW r \in Readers, Join(r)
    PROVE  Log!Join(r)
<1> DEFINE v == Reads[r]
<1>1. /\ v \in Convs /\ latest[v] \in Nat /\ Reader(r) /\ joined \in [Readers -> Nat] /\ cursor \in [Readers -> Nat]
  BY StoreConstants DEF Inductive, Tables, ReaderInv
<1>2. /\ joined[r] = 0 /\ joined' = [joined EXCEPT ![r] = latest[v] + 1]
      /\ UNCHANGED <<cursor, fetched, rows, latest, seq, result>>
  BY DEF Join, tx, answers
<1>3. Len(Logs[v]) = latest[v]
  BY <1>1, LogIs DEF Logs
<1>4. joined'[r] = latest[v] + 1 /\ latest[v] + 1 # 0 /\ latest[v] + 1 \in Nat /\ cursor'[r] = 0 /\ 0 \in Nat
  <2>1. latest[v] + 1 # 0 /\ latest[v] + 1 \in Nat /\ 0 \in Nat
    BY SMTT(30), <1>1
  <2>2. joined'[r] = latest[v] + 1
    BY <1>1, <1>2
  <2> QED BY <1>1, <1>2, <2>1, <2>2 DEF Reader
<1>5. EffectiveAfter(r)' = Max({0, (latest[v] + 1) - 1})
  <2>1. cursor'[r] = 0 /\ joined'[r] - 1 = (latest[v] + 1) - 1
    BY <1>4
  <2> QED BY <2>1 DEF EffectiveAfter
<1>6. Max({0, (latest[v] + 1) - 1}) + 1 - (latest[v] + 1) = 0
  <2>1. (latest[v] + 1) - 1 = latest[v] /\ 0 <= latest[v]
    BY SMTT(30), <1>1
  <2>2. Max({0, latest[v]}) = latest[v]
    <3>1. {0, latest[v]} \subseteq Int /\ \A x \in {0, latest[v]} : x <= latest[v]
      BY SMTT(30), <1>1
    <3> QED BY <3>1, MaxIs
  <2> QED BY SMTT(30), <1>1, <2>1, <2>2
<1>7. PulledBy(r)' = PulledBy(r)
  <2>1. 1..0 = {}
    BY SMTT(30)
  <2>2. PulledBy(r) = [n \in {} |-> MessageAt(fetched[r], n + joined[r] - 1)]
    BY <1>2, <2>1 DEF PulledBy
  <2>3. PulledBy(r)' = [n \in {} |-> MessageAt(fetched[r], n + joined[r] - 1)']
    BY <1>4, <1>5, <1>6, <2>1 DEF PulledBy
  <2> QED BY <2>2, <2>3
<1>8. ASSUME NEW k \in Readers, k # r PROVE PulledBy(k)' = PulledBy(k)
  BY <1>1, <1>2, <1>8, OthersPulled
<1>9. Pulled' = Pulled
  BY <1>7, <1>8 DEF Pulled
<1>10. Logs' = Logs /\ Numbers' = Numbers
  BY <1>2, LogsRest DEF Numbers, NumberOf
<1> QED BY <1>2, <1>3, <1>9, <1>10 DEF Log!Join

LEMMA PullRefines ==
    ASSUME Inductive, ReaderInv, NEW r \in Readers, PullRows(r)
    PROVE  Log!Pull(r)
<1> DEFINE v == Reads[r]
           e == EffectiveAfter(r)
           j == joined[r]
<1>1. /\ v \in Convs /\ latest[v] \in Nat /\ Reader(r) /\ j \in Nat /\ cursor[r] \in Nat
      /\ cursor \in [Readers -> Nat] /\ DOMAIN fetched = Readers /\ PageSize \in Nat
  BY StoreConstants DEF Inductive, Tables, ReaderInv
<1>2. PICK c : c = Max({e} \cup {m.seq : m \in Selected(r, PageSize)})
  OBVIOUS
<1>3. /\ r \in pulling /\ cursor' = [cursor EXCEPT ![r] = c]
      /\ fetched' = [fetched EXCEPT ![r] = @ \cup Selected(r, PageSize)]
      /\ UNCHANGED <<joined, rows, latest, seq, result>>
  BY <1>2 DEF PullRows, tx, answers
<1>4. /\ c \in Nat /\ c <= latest[v] /\ e <= c /\ c <= e + PageSize
      /\ fetched[r] \cup Selected(r, PageSize) = {m \in RowsOf(v) : j <= m.seq /\ m.seq <= c}
  BY <1>2, <1>3, PageIs
<1>5. j # 0
  BY <1>1, <1>3 DEF Reader
<1>6. e \in Nat /\ j - 1 <= e
  BY <1>1, <1>5, AfterIs
<1>7. Len(Pulled[r]) = e + 1 - j
  BY <1>5, PulledLength DEF Pulled
<1>8. cursor'[r] = c /\ joined'[r] = j /\ fetched'[r] = {m \in RowsOf(v) : j <= m.seq /\ m.seq <= c}
  BY <1>1, <1>3, <1>4
<1> HIDE DEF e
<1>9. EffectiveAfter(r)' = c
  <2>1. EffectiveAfter(r)' = Max({c, j - 1})
    BY <1>8 DEF EffectiveAfter
  <2>2. {c, j - 1} \subseteq Int /\ \A x \in {c, j - 1} : x <= c
    BY SMTT(30), <1>1, <1>4, <1>6
  <2>3. Max({c, j - 1}) = c
    BY <2>2, MaxIs
  <2> QED BY <2>1, <2>3
<1>10. PulledBy(r)' = SubSeq(LogOf(v), j, c)
  <2>1. fetched'[r] = Portion(r, j, c)
    BY <1>8 DEF Portion
  <2>2. PulledBy(r)' = [n \in 1..(c + 1 - j) |-> MessageAt(Portion(r, j, c), n + j - 1)]
    BY <1>5, <1>8, <1>9, <2>1 DEF PulledBy, MessageAt
  <2>3. j <= c + 1
    BY SMTT(30), <1>1, <1>4, <1>5, <1>6
  <2>4. [n \in 1..(c + 1 - j) |-> MessageAt(Portion(r, j, c), n + j - 1)] = SubSeq(LogOf(v), j, c)
    BY <1>1, <1>4, <1>5, <2>3, PulledIs
  <2> QED BY <2>2, <2>4
<1>11. ASSUME NEW k \in Readers, k # r PROVE PulledBy(k)' = PulledBy(k)
  BY <1>1, <1>3, <1>11, OthersPulled
<1>12. Pulled' = [Pulled EXCEPT ![r] = SubSeq(Logs[v], j, c)]
  BY <1>1, <1>10, <1>11 DEF Pulled, Logs
<1>13. Logs' = Logs /\ Numbers' = Numbers
  BY <1>3, LogsRest DEF Numbers, NumberOf
<1>14. Len(Logs[v]) = latest[v]
  BY <1>1, LogIs DEF Logs
<1>15. PICK n \in 0..PageSize : j + Len(Pulled[r]) + n - 1 = c
  <2>1. c - e \in 0..PageSize /\ j + (e + 1 - j) + (c - e) - 1 = c
    BY SMTT(30), <1>1, <1>4, <1>6
  <2> QED BY <1>7, <2>1
<1> QED BY <1>3, <1>4, <1>5, <1>12, <1>13, <1>14, <1>15 DEF Log!Pull

LEMMA InitRefines == Init => Log!Init
<1> SUFFICES ASSUME Init PROVE Log!Init
  OBVIOUS
<1>1. ASSUME NEW v \in Convs PROVE LogOf(v) = << >>
  <2>1. latest[v] = 0
    BY DEF Init
  <2> QED BY SMTT(30), <2>1 DEF LogOf
<1>2. ASSUME NEW r \in Readers PROVE PulledBy(r) = << >> /\ joined[r] \in {0, 1}
  <2>1. joined[r] \in {0, 1} /\ cursor[r] = 0
    BY DEF Init
  <2>2. CASE joined[r] = 0
    BY SMTT(30), <2>1, <2>2 DEF PulledBy
  <2>3. CASE joined[r] = 1
    <3>1. EffectiveAfter(r) = Max({0, 1 - 1})
      BY <2>1, <2>3 DEF EffectiveAfter
    <3>2. Max({0, 1 - 1}) = 0
      <4>1. {0, 1 - 1} \subseteq Int /\ \A y \in {0, 1 - 1} : y <= 0
        BY SMTT(30)
      <4> QED BY <4>1, MaxIs
    <3> QED BY SMTT(30), <2>3, <3>1, <3>2 DEF PulledBy
  <2> QED BY <2>1, <2>2, <2>3
<1>3. Logs = [v \in Convs |-> << >>] /\ Pulled = [r \in Readers |-> << >>]
  BY <1>1, <1>2 DEF Logs, Pulled
<1>4. result = [a \in Sends |-> "none"] /\ Numbers = [a \in Sends |-> 0]
  BY DEF Init, Numbers, NumberOf, Succeeded
<1>5. joined \in [Readers -> {0, 1}]
  BY <1>2 DEF Init
<1> QED BY <1>3, <1>4, <1>5 DEF Log!Init

LEMMA StepRefines == Inductive /\ ReaderInv /\ [Next]_vars => [Log!Next]_(Log!vars)
<1> SUFFICES ASSUME Inductive, ReaderInv, [Next]_vars PROVE [Log!Next]_(Log!vars)
  OBVIOUS
<1>1. CASE UNCHANGED vars
  <2>1. UNCHANGED <<rows, latest, result, seq>> /\ UNCHANGED reading
    BY <1>1 DEF vars, tx, answers
  <2> QED BY <2>1, LogsRest, PulledRests DEF Log!vars, Numbers, NumberOf
<1>2. ASSUME NEW a \in Sends, Step(a) \/ Fail(a) PROVE [Log!Next]_(Log!vars)
  BY <1>2, SendRefines
<1>3. ASSUME NEW r \in Readers, Join(r) PROVE [Log!Next]_(Log!vars)
  BY <1>3, JoinRefines DEF Log!Next
<1>4. ASSUME NEW r \in Readers, PullOpen(r) PROVE [Log!Next]_(Log!vars)
  <2>1. UNCHANGED <<rows, latest, result, seq>> /\ UNCHANGED <<joined, cursor, fetched>>
    BY <1>4 DEF PullOpen, tx, answers
  <2> QED BY <2>1, LogsRest DEF Log!vars, Numbers, NumberOf, Pulled, PulledBy, EffectiveAfter
<1>5. ASSUME NEW r \in Readers, PullRows(r) PROVE [Log!Next]_(Log!vars)
  BY <1>5, PullRefines DEF Log!Next
<1> QED BY <1>1, <1>2, <1>3, <1>4, <1>5 DEF Next

\* The whole of accept_direct_text, accept_group_message, reply_group_join and
\* sync_conversation as the clients see it: transactions that interleave, fail or
\* are committed unnoticed, and pulls that run between them, are logs to which
\* every command is appended at once and at most once.
THEOREM ImplementsLogAlways == Spec => ImplementsLog
BY InitRefines, StepRefines, InductiveAlways, ReaderAlways, PTL DEF Spec, SafeSpec, ImplementsLog, Log!Spec

-----------------------------------------------------------------------------
(* Why sends end.                                                          *)

\* The next step of a send that has begun does not wait for another one.
CanMove(a) ==
    \/ stage[a] \in {"locked", "duplicate", "conflict", "written", "doomed", "unsure"}
    \/ stage[a] = "opened" /\ lock[Conv[a]] \in {NoSend, a}
    \/ stage[a] = "fresh" /\ ~KeyBusy(a)

\* While sends are under way one of them can move.
NobodyStuck == (\E a \in Sends : stage[a] \notin {"new", "done"}) => \E b \in Sends : CanMove(b)

\* Who holds a row has a transaction that has got at least that far.
Holder(v) ==
    lock[v] # NoSend =>
        /\ lock[v] \in Sends /\ Conv[lock[v]] = v
        /\ \/ stage[lock[v]] \in Holds \cup {"doomed", "unsure"}
           \/ stage[lock[v]] = "opened" /\ ~Direct(lock[v])

\* How far a stage is from the beginning.
Rank == [s \in Stages |-> CASE s = "new" -> 0
                            [] s = "opened" -> 1
                            [] s = "locked" -> 2
                            [] s \in {"fresh", "duplicate", "conflict"} -> 3
                            [] s = "written" -> 4
                            [] s \in {"doomed", "unsure"} -> 5
                            [] s = "done" -> 6]

\* Every step of a send takes it further, and none takes another one back.
SendsAdvance ==
    [][\A a \in Sends : /\ Step(a) => Rank[stage'[a]] > Rank[stage[a]]
                        /\ Rank[stage'[a]] >= Rank[stage[a]]]_vars

\* The holders of the rows stay what they are.
LEMMA HoldersEndure ==
    ASSUME Inductive, NEW a \in Sends, Step(a) \/ Fail(a), \A v \in Convs : Holder(v), NEW v \in Convs
    PROVE  Holder(v)'
<1>1. stage \in [Sends -> Stages] /\ DOMAIN lock = Convs /\ NoSend \notin Sends /\ Conv[a] \in Convs
  BY StoreConstants DEF Inductive, Tables
<1>2. PICK s : stage' = [stage EXCEPT ![a] = s]
  BY DEF Step, Fail, Refuse, Open, Lock, Lookup, RejectConflict, Write, Collide, Commit, Settle, Goto, Forget
<1>3. \A b \in Sends \ {a} : stage'[b] = stage[b]
  BY <1>1, <1>2
<1>4. CASE lock[v] # a /\ lock'[v] \in {NoSend, lock[v]}
  BY <1>3, <1>4 DEF Holder, Direct
<1>5. CASE Refuse(a) \/ RejectConflict(a) \/ Commit(a) \/ Settle(a)
  <2>1. lock'[v] = IF lock[v] = a THEN NoSend ELSE lock[v]
    BY <1>5 DEF Refuse, RejectConflict, Commit, Settle, Apply, Release
  <2>2. CASE lock[v] = a
    BY <2>1, <2>2 DEF Holder
  <2> QED BY <1>4, <2>1, <2>2
<1>6. CASE Open(a) \/ Lock(a)
  <2>1. /\ lock' = lock \/ lock' = [lock EXCEPT ![Conv[a]] = a]
        /\ stage[a] \in {"new", "opened"}
        /\ stage'[a] = "locked" \/ (stage[a] = "new" /\ stage'[a] = "opened" /\ (Direct(a) => lock' = lock))
    BY <1>1, <1>6 DEF Open, Lock, Goto
  <2>2. CASE lock'[v] = a /\ v = Conv[a]
    <3>1. stage'[a] \in Holds \/ (stage'[a] = "opened" /\ ~Direct(a))
      <4>1. ASSUME stage[a] = "new", lock[v] = a PROVE FALSE
        BY <4>1, <1>1 DEF Holder, Holds
      <4> QED BY <2>1, <2>2, <4>1 DEF Holds
    <3> QED BY <2>2, <3>1 DEF Holder, Direct
  <2>3. CASE lock'[v] # a
    <3>1. lock'[v] = lock[v]
      BY <1>1, <2>1, <2>3
    <3> QED BY <1>4, <2>3, <3>1
  <2>4. CASE lock'[v] = a /\ v # Conv[a]
    <3>1. lock[v] = a
      BY <1>1, <2>1, <2>4
    <3> QED BY <1>1, <2>4, <3>1 DEF Holder
  <2> QED BY <2>2, <2>3, <2>4
<1>7. CASE Lookup(a) \/ Write(a) \/ Collide(a) \/ Fail(a)
  <2>1. lock' = lock /\ stage'[a] \in Holds \cup {"doomed", "unsure"}
    <3>1. CASE Lookup(a)
      BY <1>1, <3>1 DEF Lookup, Goto, Holds
    <3>2. CASE Write(a)
      BY <1>1, <3>2 DEF Write, Goto, Holds
    <3>3. CASE Collide(a)
      BY <1>1, <3>3 DEF Collide, Forget, Goto
    <3>4. CASE Fail(a)
      BY <1>1, <3>4 DEF Fail, Forget, Goto
    <3> QED BY <1>7, <3>1, <3>2, <3>3, <3>4
  <2>2. CASE lock[v] = a
    BY <2>1, <2>2 DEF Holder
  <2> QED BY <1>4, <2>1, <2>2
<1> QED BY <1>5, <1>6, <1>7 DEF Step

LEMMA HoldersAlways == SafeSpec => [](\A v \in Convs : Holder(v))
<1>1. Init => \A v \in Convs : Holder(v)
  <2> SUFFICES ASSUME Init, NEW v \in Convs PROVE Holder(v)
    OBVIOUS
  <2>1. lock[v] = NoSend
    BY DEF Init
  <2> QED BY <2>1 DEF Holder
<1>2. Inductive /\ (\A v \in Convs : Holder(v)) /\ [Next]_vars => (\A v \in Convs : Holder(v))'
  <2> SUFFICES ASSUME Inductive, \A v \in Convs : Holder(v), [Next]_vars PROVE \A v \in Convs : Holder(v)'
    OBVIOUS
  <2>1. CASE UNCHANGED <<lock, stage>>
    BY <2>1 DEF Holder, Direct
  <2>2. CASE \E a \in Sends : Step(a) \/ Fail(a)
    BY <2>2, HoldersEndure
  <2> QED BY <2>1, <2>2 DEF Next, Join, PullOpen, PullRows, tx, vars
<1> QED BY <1>1, <1>2, InductiveAlways, PTL DEF SafeSpec

\* accept_direct_text and accept_group_message wait for the conversation's row
\* and then for the unique key, never the other way round: as long as a send is
\* under way, one of them waits for nobody.
THEOREM NobodyStuckAlways == Spec => []NobodyStuck
<1>1. Inductive /\ (\A v \in Convs : Holder(v)) => NobodyStuck
  <2> SUFFICES ASSUME Inductive, \A v \in Convs : Holder(v), NEW a \in Sends, stage[a] \notin {"new", "done"}
               PROVE  \E b \in Sends : CanMove(b)
    BY DEF NobodyStuck
  <2>1. ASSUME NEW b \in Sends, stage[b] \in Holds \cup {"doomed", "unsure"} PROVE \E c \in Sends : CanMove(c)
    <3>1. CASE stage[b] = "fresh" /\ KeyBusy(b)
      <4>1. PICK c \in inserted : Key[c] = Key[b]
        BY <3>1 DEF KeyBusy
      <4>2. c \in Sends /\ stage[c] \in {"written", "doomed", "unsure"}
        BY DEF Inductive, Tables, Sound
      <4> QED BY <4>2 DEF CanMove
    <3> QED BY <2>1, <3>1 DEF CanMove, Holds
  <2>2. CASE stage[a] = "opened"
    <3>1. CASE lock[Conv[a]] \in {NoSend, a}
      BY <2>2, <3>1 DEF CanMove
    <3>2. CASE lock[Conv[a]] \notin {NoSend, a}
      <4>1. PICK b \in Sends : b = lock[Conv[a]] /\ Conv[b] = Conv[a]
        BY <3>2, StoreConstants DEF Holder
      <4>2. stage[b] \in Holds \cup {"doomed", "unsure"} \/ stage[b] = "opened"
        BY <3>2, <4>1, StoreConstants DEF Holder
      <4>3. CASE stage[b] = "opened"
        BY <4>1, <4>3 DEF CanMove
      <4> QED BY <2>1, <4>2, <4>3
    <3> QED BY <3>1, <3>2
  <2>3. stage[a] \in Stages
    BY DEF Inductive, Tables
  <2> QED BY <2>1, <2>2, <2>3 DEF Stages, Holds
<1> QED BY <1>1, InductiveAlways, HoldersAlways, PTL DEF Spec

\* A step of a send changes how far this one is, and forward.
LEMMA Advances ==
    ASSUME Inductive, NEW a \in Sends, Step(a) \/ Fail(a)
    PROVE  Rank[stage'[a]] > Rank[stage[a]] /\ Rank[stage'[a]] >= Rank[stage[a]] /\ \A b \in Sends \ {a} : stage'[b] = stage[b]
<1>1. stage \in [Sends -> Stages]
  BY DEF Inductive, Tables
<1>2. PICK s : stage' = [stage EXCEPT ![a] = s]
  BY DEF Step, Fail, Refuse, Open, Lock, Lookup, RejectConflict, Write, Collide, Commit, Settle, Goto, Forget
<1>3. stage'[a] = s /\ \A b \in Sends \ {a} : stage'[b] = stage[b]
  BY <1>1, <1>2
<1> DEFINE Further ==
               \/ stage[a] = "new" /\ stage'[a] \in {"opened", "done"}
               \/ stage[a] = "opened" /\ stage'[a] \in {"locked", "doomed", "done"}
               \/ stage[a] = "locked" /\ stage'[a] \in {"fresh", "duplicate", "conflict", "doomed"}
               \/ stage[a] = "fresh" /\ stage'[a] \in {"written", "doomed"}
               \/ stage[a] \in {"duplicate", "conflict", "written"} /\ stage'[a] \in {"done", "doomed", "unsure"}
               \/ stage[a] \in {"doomed", "unsure"} /\ stage'[a] = "done"
<1>4. ASSUME Refuse(a) \/ Open(a) \/ Lock(a) \/ Lookup(a) \/ RejectConflict(a) PROVE Further
  BY <1>1, <1>4 DEF Refuse, Open, Lock, Lookup, RejectConflict, Goto, Forget
<1>5. ASSUME Write(a) \/ Collide(a) \/ Commit(a) \/ Settle(a) PROVE Further
  BY <1>1, <1>5 DEF Write, Collide, Commit, Settle, Goto, Forget
<1>6. ASSUME Fail(a) PROVE Further
  BY <1>1, <1>6 DEF Fail, Goto, Forget, Running
<1>7. Further
  BY <1>4, <1>5, <1>6 DEF Step
<1>8. Rank[stage'[a]] > Rank[stage[a]] /\ Rank[stage'[a]] >= Rank[stage[a]]
  BY SMTT(30), <1>7 DEF Rank, Stages
<1> QED BY <1>3, <1>8

\* The statements of a send follow each other to its end without a loop: no step
\* is repeated, a failure and its rollback included.  With NobodyStuckAlways and
\* the fairness of the statements this is why sends end.
THEOREM SendsAdvanceAlways == Spec => SendsAdvance
<1> DEFINE Forward(a) == /\ Step(a) => Rank[stage'[a]] > Rank[stage[a]]
                         /\ Rank[stage'[a]] >= Rank[stage[a]]
<1>1. ASSUME Inductive, [Next]_vars PROVE [\A a \in Sends : Forward(a)]_vars
  <2>1. ASSUME NEW a \in Sends PROVE Rank[stage[a]] \in Int /\ Rank[stage[a]] >= Rank[stage[a]]
    <3>1. stage[a] \in Stages
      BY <1>1 DEF Inductive, Tables
    <3> QED BY SMTT(30), <3>1 DEF Rank, Stages
  <2>2. ASSUME NEW a \in Sends, Next PROVE Rank[stage'[a]] >= Rank[stage[a]]
    <3>1. CASE \E b \in Sends : Step(b) \/ Fail(b)
      BY <1>1, <2>1, <3>1, Advances
    <3>2. CASE UNCHANGED stage
      BY <2>1, <3>2
    <3> QED BY <2>2, <3>1, <3>2 DEF Next, Join, PullOpen, PullRows
  <2> QED BY <1>1, <2>2, Advances
<1> QED BY <1>1, InductiveAlways, PTL DEF Spec, SafeSpec, SendsAdvance

=============================================================================
