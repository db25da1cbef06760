---------------------------- MODULE Sockets_Proofs ----------------------------
(* What holds of a page and its socket, for every number of calls, tickets *)
(* and processes: one live connection of a shell and what its stores hold  *)
(* of the records, what the promises of a page tell it, the door of the    *)
(* event stream, and who is shown present. The inductive invariants are    *)
(* ShellIInv, CallsIInv, GateIInv and AttendIInv.                          *)
EXTENDS ShellClient, PageCalls, WsGate, Attendance, TLAPS, FiniteSetTheorems,
        SequenceTheorems, NaturalsInduction, WellFoundedInduction

-----------------------------------------------------------------------------
(* Sockets are numbered, and only the current one is not yet closed; while *)
(* a ticket is minted there is none.                                       *)
IsSocket(k) == k = [state |-> k.state, wire |-> k.wire]
LinkIInv ==
    /\ Len(socks) \in Nat /\ DOMAIN socks = 1 .. Len(socks)
    /\ socks = [n \in 1 .. Len(socks) |-> socks[n]]
    /\ \A n \in DOMAIN socks : IsSocket(socks[n])
    /\ \A n \in DOMAIN socks : socks[n].state # "closed" => ws = n
    /\ minting \in BOOLEAN /\ connecting \in BOOLEAN
    /\ minting => connecting /\ ws = 0

LEMMA LinkInit == ShellInit => LinkIInv
BY DEF ShellInit, LinkIInv

(* The states of the sockets stay, whatever is put on the wire.            *)
LEMMA WiresOnly ==
  ASSUME LinkIInv, UNCHANGED <<ws, minting, connecting>>,
         Len(socks') = Len(socks), DOMAIN socks' = 1 .. Len(socks'),
         socks' = [n \in 1 .. Len(socks') |-> socks'[n]],
         \A n \in DOMAIN socks : /\ IsSocket(socks'[n])
                                 /\ socks'[n].state # "closed" => socks[n].state # "closed"
  PROVE  LinkIInv'
BY DEF LinkIInv, IsSocket

(* One socket is written.                                                  *)
LEMMA SocketWritten ==
  ASSUME LinkIInv, NEW n \in DOMAIN socks, NEW k, IsSocket(k), socks' = [socks EXCEPT ![n] = k]
  PROVE  /\ Len(socks') = Len(socks) /\ Len(socks') \in Nat /\ DOMAIN socks' = 1 .. Len(socks')
         /\ socks' = [m \in 1 .. Len(socks') |-> socks'[m]]
         /\ \A m \in DOMAIN socks' : IsSocket(socks'[m])
         /\ DOMAIN socks' = DOMAIN socks
         /\ socks'[n] = k /\ \A m \in DOMAIN socks : m # n => socks'[m] = socks[m]
<1>1. DOMAIN socks' = 1 .. Len(socks) /\ Len(socks) \in Nat
  BY DEF LinkIInv
<1>2. socks' = [m \in 1 .. Len(socks) |-> socks'[m]]
  BY DEF LinkIInv
<1>3. Len(socks') = Len(socks)
  BY <1>1, <1>2
<1>4. socks'[n] = k /\ \A m \in DOMAIN socks : m # n => socks'[m] = socks[m]
  OBVIOUS
<1> QED BY <1>1, <1>2, <1>3, <1>4 DEF LinkIInv

(* A message is popped, a stream opens or breaks.                          *)
LEMMA OneSocketStep ==
  ASSUME LinkIInv, NEW n \in DOMAIN socks, NEW k, IsSocket(k), socks' = [socks EXCEPT ![n] = k],
         k.state # "closed" => ws = n, ws' = ws, minting' = minting, connecting' \in BOOLEAN,
         minting => connecting'
  PROVE  LinkIInv'
BY SocketWritten DEF LinkIInv

(* The relay pushes to the streams that are open.                          *)
LEMMA PostStep ==
  ASSUME LinkIInv, NEW msg, socks' = Post(msg), UNCHANGED <<ws, minting, connecting>>
  PROVE  LinkIInv'
<1>1. DOMAIN socks' = 1 .. Len(socks) /\ Len(socks) \in Nat
      /\ socks' = [n \in 1 .. Len(socks) |-> socks'[n]]
  BY DEF Post, LinkIInv
<1>2. Len(socks') = Len(socks)
  BY <1>1
<1>3. \A n \in DOMAIN socks : IsSocket(socks'[n]) /\ socks'[n].state = socks[n].state
  <2> SUFFICES ASSUME NEW n \in DOMAIN socks
               PROVE  IsSocket(socks'[n]) /\ socks'[n].state = socks[n].state
    OBVIOUS
  <2>1. PICK k : k = socks[n]
    OBVIOUS
  <2>2. k = [state |-> k.state, wire |-> k.wire]
    BY <2>1 DEF LinkIInv, IsSocket
  <2>3. CASE k.state = "open"
    <3>1. socks'[n] = [k EXCEPT !.wire = Append(k.wire, msg)]
      BY <2>1, <2>3 DEF Post
    <3>2. PICK v : v = Append(k.wire, msg)
      OBVIOUS
    <3>3. [k EXCEPT !.wire = v] = [state |-> k.state, wire |-> v]
      BY <2>2
    <3> QED BY <2>1, <3>1, <3>2, <3>3 DEF IsSocket
  <2>4. CASE k.state # "open"
    BY <2>1, <2>2, <2>4 DEF Post, IsSocket
  <2> QED BY <2>3, <2>4
<1> QED BY <1>1, <1>2, <1>3, WiresOnly DEF LinkIInv

(* A message of a socket is taken off its wire.                            *)
LEMMA PopStep ==
  ASSUME LinkIInv, NEW n \in DOMAIN socks, socks' = Pop(n), UNCHANGED <<ws, minting, connecting>>
  PROVE  LinkIInv'
<1>1. PICK k : k = socks[n]
  OBVIOUS
<1>2. k = [state |-> k.state, wire |-> k.wire]
  BY <1>1 DEF LinkIInv, IsSocket
<1>3. PICK q : q = [k EXCEPT !.wire = Tail(k.wire)]
  OBVIOUS
<1>4. IsSocket(q) /\ q.state = k.state
  BY <1>2, <1>3 DEF IsSocket
<1>5. socks' = [socks EXCEPT ![n] = q]
  BY <1>1, <1>3 DEF Pop
<1>6. k.state # "closed" => ws = n
  BY <1>1 DEF LinkIInv
<1> QED BY <1>4, <1>5, <1>6, OneSocketStep DEF LinkIInv

(* Timer, ticket, open event and close event.                              *)
LEMMA LinkSteps ==
  ASSUME LinkIInv, \/ Fire \/ MintAnswers \/ MintFails
                   \/ \E n \in DOMAIN socks : Opens(n) \/ Breaks(n) \/ CloseEvent(n)
  PROVE  LinkIInv'
<1>1. CASE Fire
  BY <1>1 DEF Fire, LinkIInv
<1>2. CASE MintFails
  BY <1>2 DEF MintFails, LinkIInv
<1>3. CASE MintAnswers
  <2>1. PICK k : k = [state |-> "connecting", wire |-> << >>]
    OBVIOUS
  <2>2. IsSocket(k)
    BY <2>1 DEF IsSocket
  <2>3. socks' = Append(socks, k) /\ ws' = Len(socks) + 1 /\ ~minting' /\ minting
        /\ connecting' = connecting
    BY <1>3, <2>1 DEF MintAnswers
  <2>4. Len(socks) \in Nat /\ DOMAIN socks = 1 .. Len(socks)
        /\ socks = [n \in 1 .. Len(socks) |-> socks[n]]
    BY DEF LinkIInv
  <2>5. PICK m \in Nat : m = Len(socks)
    BY <2>4
  <2>6. socks' = [n \in 1 .. m + 1 |-> IF n <= m THEN socks[n] ELSE k]
    <3>1. PICK S : S = {socks[n] : n \in 1 .. m} \cup {k}
      OBVIOUS
    <3>2. socks \in [1 .. m -> S] /\ k \in S
      BY <2>4, <2>5, <3>1
    <3>3. socks \in Seq(S)
      BY <3>2
    <3>4. PICK t : t = Append(socks, k)
      OBVIOUS
    <3>5. /\ t \in Seq(S) /\ Len(t) = m + 1
          /\ t[m + 1] = k /\ \A i \in 1 .. m : t[i] = socks[i]
      BY <2>5, <3>2, <3>3, <3>4, AppendProperties
    <3>6. t = [n \in 1 .. m + 1 |-> IF n <= m THEN socks[n] ELSE k]
      BY <3>5
    <3> QED BY <2>3, <3>4, <3>6
  <2>7. DOMAIN socks' = 1 .. m + 1 /\ Len(socks') = m + 1
        /\ socks' = [n \in 1 .. Len(socks') |-> socks'[n]]
    BY <2>6
  <2>8. \A n \in 1 .. m + 1 : socks'[n] = IF n = m + 1 THEN k ELSE socks[n]
    BY <2>6
  <2>9. \A n \in 1 .. m : socks[n].state = "closed"
    BY <2>3, <2>4, <2>5 DEF LinkIInv
  <2>10. \A n \in DOMAIN socks' : IsSocket(socks'[n])
    BY <2>2, <2>4, <2>5, <2>7, <2>8 DEF LinkIInv
  <2>11. \A n \in DOMAIN socks' : socks'[n].state # "closed" => n = m + 1
    BY <2>7, <2>8, <2>9
  <2>12. connecting' \in BOOLEAN /\ m + 1 \in Nat /\ minting' = FALSE
    BY <1>3, <2>3 DEF LinkIInv, MintAnswers
  <2>13. \A n \in DOMAIN socks' : socks'[n].state # "closed" => ws' = n
    BY <2>3, <2>5, <2>11
  <2> QED BY <2>7, <2>10, <2>12, <2>13 DEF LinkIInv
<1>4. ASSUME NEW n \in DOMAIN socks, Opens(n)
      PROVE  LinkIInv'
  <2>1. PICK r : r = Replay(Cursors[1], Cursors[2])
    OBVIOUS
  <2>2. PICK k : k = [state |-> "open", wire |-> r]
    OBVIOUS
  <2>3. socks' = [socks EXCEPT ![n] = k] /\ IsSocket(k)
    BY <1>4, <2>1, <2>2 DEF Opens, IsSocket
  <2>4. ws = n /\ n # 0
    BY <1>4 DEF LinkIInv, Opens
  <2>5. ws' = ws /\ minting' = minting /\ connecting' = FALSE /\ ~minting
    BY <1>4, <2>4 DEF Opens, LinkIInv
  <2> QED BY <2>3, <2>4, <2>5, OneSocketStep
<1>5. ASSUME NEW n \in DOMAIN socks, Breaks(n)
      PROVE  LinkIInv'
  <2>1. PICK k : k = [state |-> "cut", wire |-> << >>]
    OBVIOUS
  <2>2. socks' = [socks EXCEPT ![n] = k] /\ IsSocket(k)
    BY <1>5, <2>1 DEF Breaks, IsSocket
  <2>3. ws = n
    BY <1>5 DEF LinkIInv, Breaks
  <2>4. ws' = ws /\ minting' = minting /\ connecting' = connecting
    BY <1>5 DEF Breaks
  <2> QED BY <2>2, <2>3, <2>4, OneSocketStep DEF LinkIInv
<1>6. ASSUME NEW n \in DOMAIN socks, CloseEvent(n)
      PROVE  LinkIInv'
  <2>1. ws = n /\ n # 0
    BY <1>6 DEF LinkIInv, CloseEvent
  <2>2. PICK k : k = socks[n]
    OBVIOUS
  <2>3. k = [state |-> k.state, wire |-> k.wire]
    BY <2>2 DEF LinkIInv, IsSocket
  <2>4. PICK q : q = [k EXCEPT !.state = "closed"]
    OBVIOUS
  <2>5. IsSocket(q) /\ q.state = "closed"
    BY <2>3, <2>4 DEF IsSocket
  <2>6. socks' = [socks EXCEPT ![n] = q]
    BY <1>6, <2>2, <2>4 DEF CloseEvent
  <2>7. ws' = 0 /\ connecting' = FALSE /\ minting' = minting /\ ~minting
    BY <1>6, <2>1 DEF CloseEvent, LinkIInv
  <2>8. \A m \in DOMAIN socks : m # n => socks[m].state = "closed"
    BY <2>1 DEF LinkIInv
  <2>9. \A m \in DOMAIN socks' : socks'[m].state = "closed"
    BY <2>5, <2>6, <2>8, SocketWritten
  <2> QED BY <2>5, <2>6, <2>7, <2>9, SocketWritten DEF LinkIInv
<1> QED BY <1>1, <1>2, <1>3, <1>4, <1>5, <1>6

LEMMA LinkStepIInv == LinkIInv /\ [ShellNext]_shellVars => LinkIInv'
<1> SUFFICES ASSUME LinkIInv, [ShellNext]_shellVars
             PROVE  LinkIInv'
  OBVIOUS
<1>1. CASE UNCHANGED <<socks, ws, minting, connecting>>
  BY <1>1 DEF LinkIInv, IsSocket
<1>2. CASE UNCHANGED shellVars
  BY <1>1, <1>2 DEF shellVars, linkVars
<1>3. CASE AppendEvent
  BY <1>3, PostStep DEF AppendEvent
<1>4. ASSUME NEW k \in RecKeys, WriteRecord(k)
      PROVE  LinkIInv'
  <2>1. \E msg : socks' = Post(msg)
    BY <1>4 DEF WriteRecord
  <2>2. UNCHANGED <<ws, minting, connecting>>
    BY <1>4 DEF WriteRecord
  <2> QED BY <2>1, <2>2, PostStep
<1>5. CASE IframeReady
  BY <1>1, <1>5 DEF IframeReady, linkVars
<1>6. ASSUME NEW n \in DOMAIN socks, ReplayComplete(n) \/ EventArrives(n) \/ RecordArrives(n)
      PROVE  LinkIInv'
  <2>1. socks' = Pop(n) /\ UNCHANGED <<ws, minting, connecting>>
    BY <1>6 DEF ReplayComplete, EventArrives, RecordArrives
  <2> QED BY <2>1, PopStep
<1> QED BY <1>2, <1>3, <1>4, <1>5, <1>6, LinkSteps DEF ShellNext

LEMMA LinkSuffices == LinkIInv => OneLiveSocket
<1> SUFFICES ASSUME LinkIInv
             PROVE  OneLiveSocket
  OBVIOUS
<1>1. PICK S : S = {n \in DOMAIN socks : socks[n].state \in {"connecting", "open"}}
  OBVIOUS
<1>2. S \subseteq {ws}
  BY <1>1 DEF LinkIInv
<1>3. IsFiniteSet({ws}) /\ Cardinality({ws}) = 1
  BY FS_Singleton
<1>4. Cardinality(S) <= 1
  BY <1>2, <1>3, FS_Subset
<1>5. minting => \A n \in DOMAIN socks : socks[n].state = "closed"
  BY DEF LinkIInv
<1> QED BY <1>1, <1>4, <1>5 DEF OneLiveSocket

(* However timer, ticket and close event interleave, the shell has at most *)
(* one socket that is alive, and none while it mints a ticket.             *)
THEOREM ShellConnectsOnce == ShellSpec => []OneLiveSocket
BY LinkInit, LinkStepIInv, LinkSuffices, PTL DEF ShellSpec

-----------------------------------------------------------------------------
(***************************************************************************)
(* The copies of the records that shell and page keep. A Map's entries are *)
(* a sequence in which no key occurs twice.                                *)
(***************************************************************************)
LEMMA LeastOf ==
  ASSUME NEW N \in SUBSET Nat, N # {}
  PROVE  \E n \in N : \A m \in N : n <= m
<1>1. PICK n \in N : \A m \in N : ~ (<<m, n>> \in OpToRel(<, Nat))
  BY NatLessThanWellFounded, WFMin
<1>2. \A m \in N : ~ (m < n)
  BY <1>1 DEF OpToRel
<1> QED BY <1>2

(* The greatest of a set of numbers that has a bound.                      *)
LEMMA GreatestOf ==
  ASSUME NEW S \in SUBSET Seqs
  PROVE  /\ SetMax(S) \in Seqs
         /\ \A x \in S : x <= SetMax(S)
<1> USE ShellAssumption DEF Seqs
<1>1. CASE S = {}
  BY <1>1 DEF SetMax
<1>2. CASE S # {}
  <2>1. PICK U : U = {u \in Nat : \A x \in S : x <= u}
    OBVIOUS
  <2>2. U \in SUBSET Nat /\ MaxSeq \in U
    BY <2>1
  <2>3. PICK u \in U : \A v \in U : u <= v
    BY <2>2, LeastOf
  <2>4. u \in Nat /\ \A x \in S : x <= u
    BY <2>1
  <2>5. u \in S
    <3>1. PICK y : y \in S
      BY <1>2
    <3>2. CASE u = 0
      BY <2>4, <3>1, <3>2
    <3>3. CASE u # 0
      <4>1. u - 1 \in Nat /\ u - 1 \notin U
        BY <2>3, <2>4, <3>3
      <4>2. PICK x \in S : ~ (x <= u - 1)
        BY <2>1, <4>1
      <4> QED BY <2>4, <4>1, <4>2
    <3> QED BY <3>2, <3>3
  <2>6. \E x \in S : \A y \in S : y <= x
    BY <2>4, <2>5
  <2> QED BY <1>2, <2>6 DEF SetMax
<1> QED BY <1>1, <1>2

MapRow == [key : RecKeys, seq : 1 .. MaxSeq]
Distinct(m) == \A i, j \in 1 .. Len(m) : m[i].key = m[j].key => i = j
MapOK(m) == m \in Seq(MapRow) /\ Distinct(m)

LEMMA MapSetRows ==
  ASSUME NEW m, MapOK(m), NEW k \in RecKeys, NEW s \in 1 .. MaxSeq, NEW q, q = MapSet(m, k, s)
  PROVE  /\ MapOK(q)
         /\ \A e : e \in MapRows(q) <=> e = Entry(k, s) \/ (e \in MapRows(m) /\ e.key # k)
<1>1. Len(m) \in Nat /\ m \in Seq(MapRow) /\ m \in [1 .. Len(m) -> MapRow]
  BY LenProperties DEF MapOK
<1>2. PICK r : r = Entry(k, s)
  OBVIOUS
<1>3. r \in MapRow /\ r.key = k
  BY <1>2 DEF Entry, MapRow
<1>4. CASE \E i \in 1 .. Len(m) : m[i].key = k
  <2>1. q = [i \in 1 .. Len(m) |-> IF m[i].key = k THEN r ELSE m[i]]
    BY <1>2, <1>4 DEF MapSet
  <2>2. /\ q \in [1 .. Len(m) -> MapRow]
        /\ \A i \in 1 .. Len(m) : /\ q[i].key = m[i].key
                                  /\ m[i].key = k => q[i] = r
                                  /\ m[i].key # k => q[i] = m[i]
    BY <1>1, <1>3, <2>1
  <2>3. q \in Seq(MapRow) /\ Len(q) = Len(m)
    BY <1>1, <2>2
  <2>4. Distinct(q)
    BY <2>2, <2>3 DEF MapOK, Distinct
  <2>5. ASSUME NEW e
        PROVE  e \in MapRows(q) <=> e = r \/ (e \in MapRows(m) /\ e.key # k)
    <3>1. e \in MapRows(q) => e = r \/ (e \in MapRows(m) /\ e.key # k)
      BY <2>2, <2>3 DEF MapRows
    <3>2. e = r => e \in MapRows(q)
      BY <1>4, <2>2, <2>3 DEF MapRows
    <3>3. e \in MapRows(m) /\ e.key # k => e \in MapRows(q)
      BY <2>2, <2>3 DEF MapRows
    <3> QED BY <3>1, <3>2, <3>3
  <2> QED BY <1>2, <2>3, <2>4, <2>5 DEF MapOK
<1>5. CASE ~ \E i \in 1 .. Len(m) : m[i].key = k
  <2>1. q = Append(m, r)
    BY <1>2, <1>5 DEF MapSet
  <2>2. PICK n \in Nat : n = Len(m)
    BY <1>1
  <2>3. /\ q \in Seq(MapRow) /\ Len(q) = n + 1 /\ q[n + 1] = r
        /\ \A i \in 1 .. n : q[i] = m[i] /\ m[i].key # k
    BY <1>1, <1>3, <1>5, <2>1, <2>2, AppendProperties
  <2>4. \A i \in 1 .. n + 1 : i = n + 1 \/ i \in 1 .. n
    OBVIOUS
  <2>5. Distinct(q)
    BY <1>3, <2>2, <2>3, <2>4 DEF MapOK, Distinct
  <2>6. ASSUME NEW e
        PROVE  e \in MapRows(q) <=> e = r \/ (e \in MapRows(m) /\ e.key # k)
    <3>1. MapRows(q) = {q[i] : i \in 1 .. n + 1} /\ MapRows(m) = {m[i] : i \in 1 .. n}
      BY <2>2, <2>3 DEF MapRows
    <3>2. e \in MapRows(q) => e = r \/ (e \in MapRows(m) /\ e.key # k)
      BY <2>3, <2>4, <3>1
    <3>3. e = r => e \in MapRows(q)
      BY <2>3, <3>1
    <3>4. e \in MapRows(m) => e \in MapRows(q)
      BY <2>3, <3>1
    <3> QED BY <3>2, <3>3, <3>4
  <2> QED BY <1>2, <2>3, <2>5, <2>6 DEF MapOK
<1> QED BY <1>4, <1>5

LEMMA Removed ==
  ASSUME NEW S, NEW m \in Seq(S), NEW p \in 1 .. Len(m), NEW q, q = RemoveAt(m, p)
  PROVE  /\ q \in Seq(S) /\ Len(q) = Len(m) - 1
         /\ \A i \in 1 .. Len(m) - 1 : q[i] = IF i < p THEN m[i] ELSE m[i + 1]
<1>1. PICK n \in Nat : n = Len(m)
  BY LenProperties
<1>2. p \in 1 .. n /\ \A i \in 1 .. n : m[i] \in S
  BY <1>1, ElementOfSeq
<1>3. PICK a : a = SubSeq(m, 1, p - 1)
  OBVIOUS
<1>4. PICK b : b = SubSeq(m, p + 1, n)
  OBVIOUS
<1>5. a \in Seq(S) /\ Len(a) = p - 1 /\ \A i \in 1 .. p - 1 : a[i] = m[i]
  <2>1. p - 1 \in Int /\ 1 \in Int /\ \A i \in 1 .. p - 1 : m[i] \in S
    BY <1>2
  <2>2. /\ a \in Seq(S) /\ Len(a) = (IF 1 <= p - 1 THEN p - 1 - 1 + 1 ELSE 0)
        /\ \A i \in 1 .. p - 1 - 1 + 1 : a[i] = m[1 + i - 1]
    BY <1>3, <2>1, SubSeqProperties
  <2> QED BY <1>2, <2>2
<1>6. b \in Seq(S) /\ Len(b) = n - p /\ \A i \in 1 .. n - p : b[i] = m[p + i]
  <2>1. p + 1 \in Int /\ n \in Int /\ \A i \in p + 1 .. n : m[i] \in S
    BY <1>2
  <2>2. /\ b \in Seq(S) /\ Len(b) = (IF p + 1 <= n THEN n - (p + 1) + 1 ELSE 0)
        /\ \A i \in 1 .. n - (p + 1) + 1 : b[i] = m[(p + 1) + i - 1]
    BY <1>4, <2>1, SubSeqProperties
  <2> QED BY <1>2, <2>2
<1>7. q = a \o b
  BY <1>1, <1>3, <1>4 DEF RemoveAt
<1>8. /\ q \in Seq(S) /\ Len(q) = Len(a) + Len(b)
      /\ \A i \in 1 .. Len(a) + Len(b) :
            q[i] = IF i <= Len(a) THEN a[i] ELSE b[i - Len(a)]
  <2>1. a \in Seq(S) /\ b \in Seq(S)
    BY <1>5, <1>6
  <2>2. /\ a \o b \in Seq(S) /\ Len(a \o b) = Len(a) + Len(b)
        /\ \A i \in 1 .. Len(a) + Len(b) :
              (a \o b)[i] = IF i <= Len(a) THEN a[i] ELSE b[i - Len(a)]
    BY <2>1, ConcatProperties
  <2> QED BY <1>7, <2>2, Zenon
<1>9. Len(q) = n - 1
  BY <1>2, <1>5, <1>6, <1>8
<1>10. ASSUME NEW i \in 1 .. n - 1 PROVE q[i] = IF i < p THEN m[i] ELSE m[i + 1]
  <2>1. q[i] = IF i <= p - 1 THEN a[i] ELSE b[i - (p - 1)]
    BY <1>2, <1>5, <1>6, <1>8
  <2>2. CASE i < p
    BY <1>2, <1>5, <2>1, <2>2
  <2>3. CASE ~ (i < p)
    <3>1. q[i] = b[i - (p - 1)] /\ i - (p - 1) \in 1 .. n - p /\ p + (i - (p - 1)) = i + 1
      BY <1>2, <2>1, <2>3
    <3> QED BY <1>6, <2>3, <3>1
  <2> QED BY <2>2, <2>3
<1> QED BY <1>1, <1>8, <1>9, <1>10

LEMMA MapDeleteRows ==
  ASSUME NEW m, MapOK(m), NEW k, NEW q, q = MapDelete(m, k)
  PROVE  /\ MapOK(q)
         /\ \A e : e \in MapRows(q) <=> e \in MapRows(m) /\ e.key # k
<1>1. PICK n \in Nat : n = Len(m)
  BY LenProperties DEF MapOK
<1>2. m \in Seq(MapRow) /\ \A i, j \in 1 .. n : m[i].key = m[j].key => i = j
  BY <1>1 DEF MapOK, Distinct
<1>3. CASE \A i \in 1 .. n : m[i].key # k
  <2>1. q = m
    BY <1>1, <1>3 DEF MapDelete
  <2> QED BY <1>1, <1>3, <2>1 DEF MapRows
<1>4. CASE \E i \in 1 .. n : m[i].key = k
  <2>1. PICK p \in 1 .. n : q = RemoveAt(m, p) /\ m[p].key = k
    <3>1. PICK at : at = {i \in 1 .. n : m[i].key = k}
      OBVIOUS
    <3>2. q = RemoveAt(m, CHOOSE i \in at : TRUE) /\ at # {}
      BY <1>1, <1>4, <3>1 DEF MapDelete
    <3> QED BY <3>1, <3>2
  <2>2. /\ q \in Seq(MapRow) /\ Len(q) = n - 1
        /\ \A i \in 1 .. n - 1 : q[i] = IF i < p THEN m[i] ELSE m[i + 1]
    BY <1>1, <1>2, <2>1, Removed
  <2>3. ASSUME NEW i \in 1 .. n - 1
        PROVE  \E j \in 1 .. n : j # p /\ q[i] = m[j] /\ j = IF i < p THEN i ELSE i + 1
    BY <2>2
  <2>4. Distinct(q)
    <3> SUFFICES ASSUME NEW i \in 1 .. n - 1, NEW j \in 1 .. n - 1, q[i].key = q[j].key
                 PROVE  i = j
      BY <2>2 DEF Distinct
    <3>1. PICK u \in 1 .. n : q[i] = m[u] /\ u = IF i < p THEN i ELSE i + 1
      BY <2>3
    <3>2. PICK v \in 1 .. n : q[j] = m[v] /\ v = IF j < p THEN j ELSE j + 1
      BY <2>3
    <3>3. u = v
      <4>1. m[u].key = m[v].key
        BY <3>1, <3>2
      <4> QED BY <1>2, <4>1
    <3> QED BY <3>1, <3>2, <3>3
  <2>5. ASSUME NEW e
        PROVE  e \in MapRows(q) <=> e \in MapRows(m) /\ e.key # k
    <3>1. MapRows(q) = {q[i] : i \in 1 .. n - 1} /\ MapRows(m) = {m[i] : i \in 1 .. n}
      BY <1>1, <2>2 DEF MapRows
    <3>2. \A j \in 1 .. n : j # p => m[j].key # k
      BY <1>2, <2>1
    <3>3. e \in MapRows(q) => e \in MapRows(m) /\ e.key # k
      BY <2>3, <3>1, <3>2
    <3>4. ASSUME NEW j \in 1 .. n, e = m[j], e.key # k
          PROVE  e \in MapRows(q)
      <4>1. j # p
        BY <2>1, <3>4
      <4>2. PICK i : i = IF j < p THEN j ELSE j - 1
        OBVIOUS
      <4>3. i \in 1 .. n - 1 /\ (IF i < p THEN i ELSE i + 1) = j
        BY <4>1, <4>2
      <4>4. q[i] = m[j]
        BY <2>2, <4>3
      <4> QED BY <3>1, <3>4, <4>3, <4>4
    <3> QED BY <3>1, <3>3, <3>4
  <2> QED BY <2>2, <2>4, <2>5 DEF MapOK
<1> QED BY <1>3, <1>4

(* One rule for the stores of both sides.                                  *)
LEMMA IngestedRows ==
  ASSUME NEW m, MapOK(m), NEW last \in Nat, NEW kind, NEW k \in RecKeys,
         NEW s \in 1 .. MaxSeq, NEW a, a = IngestRecord(m, last, kind, k, s)
  PROVE  /\ MapOK(a[1])
         /\ s <= last => a[1] = m /\ a[2] = last
         /\ s > last => /\ a[2] = s
                        /\ \A e : e \in MapRows(a[1]) <=>
                              \/ kind = "upsert" /\ e = Entry(k, s)
                              \/ e \in MapRows(m) /\ e.key # k
<1>1. CASE s <= last
  BY <1>1 DEF IngestRecord
<1>2. CASE s > last /\ kind = "upsert"
  <2>1. a[1] = MapSet(m, k, s) /\ a[2] = s
    BY <1>2 DEF IngestRecord
  <2> QED BY <1>2, <2>1, MapSetRows
<1>3. CASE s > last /\ kind # "upsert"
  <2>1. a[1] = MapDelete(m, k) /\ a[2] = s
    BY <1>3 DEF IngestRecord
  <2> QED BY <1>3, <2>1, MapDeleteRows
<1> QED BY <1>1, <1>2, <1>3

LEMMA OneRule ==
  ASSUME NEW m, NEW last, NEW k, NEW s
  PROVE  /\ ApplyUpsert(m, last, k, s) = IngestRecord(m, last, "upsert", k, s)
         /\ ApplyDelete(m, last, k, s) = IngestRecord(m, last, "delete", k, s)
BY DEF ApplyUpsert, ApplyDelete, IngestRecord

-----------------------------------------------------------------------------
(* The snapshot, a row at a time: what the loop has after n rows.          *)
Ingest(rows, i, acc) == IngestRecord(acc[1], acc[2], "upsert", rows[i].key, rows[i].seq)
IsRun(rows, base, n, f) ==
    f = [i \in 0 .. n |-> IF i = 0 THEN base ELSE Ingest(rows, i, f[i - 1])]

LEMMA SnapshotIsRun ==
  ASSUME NEW rows
  PROVE  IngestSnapshot(rows)
            = (CHOOSE f : IsRun(rows, <<pageStore, pageSeq>>, Len(rows), f))[Len(rows)]
BY DEF IngestSnapshot, IsRun, Ingest

LEMMA RunExists ==
  ASSUME NEW rows, NEW base, NEW n \in Nat
  PROVE  \E f : IsRun(rows, base, n, f)
<1>1. PICK N : N = {k \in Nat : ~ \E f : IsRun(rows, base, k, f)}
  OBVIOUS
<1>2. CASE N = {}
  BY <1>1, <1>2
<1>3. CASE N # {}
  <2>1. PICK k \in N : \A j \in N : k <= j
    BY <1>1, <1>3, LeastOf
  <2>2. k \in Nat /\ ~ \E f : IsRun(rows, base, k, f)
    BY <1>1
  <2>3. CASE k = 0
    <3>1. IsRun(rows, base, 0, [i \in 0 .. 0 |-> base])
      BY DEF IsRun
    <3> QED BY <2>2, <2>3, <3>1
  <2>4. CASE k # 0
    <3>1. k - 1 \in Nat /\ k - 1 \notin N
      BY <2>1, <2>2, <2>4
    <3>2. PICK f : IsRun(rows, base, k - 1, f)
      BY <1>1, <3>1
    <3>3. PICK last : last = Ingest(rows, k, f[k - 1])
      OBVIOUS
    <3>4. PICK g : g = [i \in 0 .. k |-> IF i = k THEN last ELSE f[i]]
      OBVIOUS
    <3>5. /\ f[0] = base
          /\ \A i \in 1 .. k - 1 : f[i] = Ingest(rows, i, f[i - 1])
      BY <3>1, <3>2 DEF IsRun
    <3>6. ASSUME NEW i \in 0 .. k
          PROVE  g[i] = IF i = 0 THEN base ELSE Ingest(rows, i, g[i - 1])
      <4>1. CASE i = 0
        BY <2>2, <2>4, <3>4, <3>5, <4>1
      <4>2. CASE i = k
        <5>1. g[i] = last /\ g[i - 1] = f[k - 1]
          BY <2>2, <2>4, <3>4, <4>2
        <5> QED BY <2>4, <3>3, <4>2, <5>1
      <4>3. CASE i # 0 /\ i # k
        <5>1. g[i] = f[i] /\ g[i - 1] = f[i - 1] /\ i \in 1 .. k - 1
          BY <2>2, <3>4, <4>3
        <5> QED BY <3>5, <4>3, <5>1
      <4> QED BY <4>1, <4>2, <4>3
    <3>7. IsRun(rows, base, k, g)
      BY <3>4, <3>6 DEF IsRun
    <3> QED BY <2>2, <3>7
  <2> QED BY <2>3, <2>4
<1> QED BY <1>2, <1>3

(* A page that starts from nothing ends with some of the snapshot's rows,  *)
(* none of them later than its last.                                       *)
Caught(rows, acc) ==
    /\ MapOK(acc[1]) /\ acc[2] \in Nat
    /\ MapRows(acc[1]) \subseteq MapRows(rows)
    /\ acc[2] = 0 \/ \E e \in MapRows(rows) : e.seq = acc[2]

LEMMA IngestCaught ==
  ASSUME NEW rows, MapOK(rows), NEW i \in 1 .. Len(rows), NEW acc, Caught(rows, acc),
         NEW b, b = Ingest(rows, i, acc)
  PROVE  Caught(rows, b)
<1>1. PICK k : k = rows[i].key
  OBVIOUS
<1>2. PICK s : s = rows[i].seq
  OBVIOUS
<1>3. rows[i] \in MapRow
  BY ElementOfSeq DEF MapOK
<1>4. k \in RecKeys /\ s \in 1 .. MaxSeq /\ s \in Nat /\ rows[i] = Entry(k, s)
  BY <1>1, <1>2, <1>3, ShellAssumption DEF MapRow, Entry
<1>5. rows[i] \in MapRows(rows)
  BY DEF MapRows
<1>6. b = IngestRecord(acc[1], acc[2], "upsert", k, s)
  BY <1>1, <1>2 DEF Ingest
<1>7. /\ MapOK(b[1])
      /\ s <= acc[2] => b[1] = acc[1] /\ b[2] = acc[2]
      /\ s > acc[2] => /\ b[2] = s
                       /\ \A e : e \in MapRows(b[1]) <=> \/ e = Entry(k, s)
                                                         \/ e \in MapRows(acc[1]) /\ e.key # k
  BY <1>4, <1>6, IngestedRows DEF Caught
<1>8. CASE s <= acc[2]
  BY <1>7, <1>8 DEF Caught
<1>9. CASE ~ (s <= acc[2])
  <2>1. s > acc[2]
    BY <1>4, <1>9 DEF Caught
  <2>2. b[2] = s /\ MapRows(b[1]) \subseteq MapRows(rows)
    BY <1>4, <1>5, <1>7, <2>1 DEF Caught
  <2> QED BY <1>2, <1>4, <1>5, <1>7, <2>2 DEF Caught
<1> QED BY <1>8, <1>9

LEMMA SnapshotCaught ==
  ASSUME NEW rows, MapOK(rows), pageStore = << >>, pageSeq = 0,
         NEW a, a = IngestSnapshot(rows)
  PROVE  Caught(rows, a)
<1>1. PICK n \in Nat : n = Len(rows)
  BY LenProperties DEF MapOK
<1>2. PICK base : base = <<pageStore, pageSeq>>
  OBVIOUS
<1>3. PICK f : f = CHOOSE g : IsRun(rows, base, n, g)
  OBVIOUS
<1>4. IsRun(rows, base, n, f) /\ a = f[n]
  <2>1. IsRun(rows, base, n, f)
    BY <1>1, <1>3, RunExists
  <2> QED BY <1>1, <1>2, <1>3, <2>1, SnapshotIsRun
<1>5. f[0] = base /\ \A i \in 1 .. n : f[i] = Ingest(rows, i, f[i - 1])
  BY <1>4 DEF IsRun
<1>6. Caught(rows, base)
  <2>1. base[1] = << >> /\ base[2] = 0
    BY <1>2
  <2>2. MapOK(<< >>) /\ MapRows(<< >>) = {}
    BY EmptySeq DEF MapOK, Distinct, MapRows
  <2> QED BY <2>1, <2>2 DEF Caught
<1>7. PICK N : N = {i \in 0 .. n : ~ Caught(rows, f[i])}
  OBVIOUS
<1>8. ASSUME N # {} PROVE FALSE
  <2>1. N \in SUBSET Nat
    BY <1>7
  <2>2. PICK i \in N : \A j \in N : i <= j
    BY <1>8, <2>1, LeastOf
  <2>3. i \in 0 .. n /\ ~ Caught(rows, f[i]) /\ i # 0
    BY <1>5, <1>6, <1>7
  <2>4. i - 1 \in 0 .. n /\ i - 1 \notin N /\ i \in 1 .. n
    BY <2>2, <2>3
  <2>5. Caught(rows, f[i - 1]) /\ f[i] = Ingest(rows, i, f[i - 1])
    BY <1>5, <1>7, <2>4
  <2>6. Caught(rows, f[i])
    BY <1>1, <2>4, <2>5, IngestCaught
  <2> QED BY <2>3, <2>6
<1> QED BY <1>4, <1>7, <1>8

-----------------------------------------------------------------------------
(* The relay's rows: no two bear the same seq.                             *)
RecsInv ==
    /\ recs \in [RecKeys -> [seq : Seqs, live : BOOLEAN]]
    /\ \A j, k \in RecKeys : recs[j].seq = recs[k].seq /\ j # k => recs[j].seq = 0
    /\ \A k \in RecKeys : recs[k].seq = 0 => recs[k].live = FALSE

LEMMA RowsInOrder ==
  ASSUME RecsInv, NEW since \in Nat, NEW S, S = RowsAfter(since), NEW n, n = Cardinality(S)
  PROVE  /\ S \subseteq RecKeys /\ n \in Nat /\ n <= Cardinality(RecKeys)
         /\ \A i \in 1 .. n : Nth(S, i) \in S
         /\ \A i, j \in 1 .. n : i < j => recs[Nth(S, i)].seq < recs[Nth(S, j)].seq
         /\ \A k \in S : \E i \in 1 .. n : Nth(S, i) = k
<1> DEFINE upTo(k) == {j \in S : recs[j].seq <= recs[k].seq}
           rank(k) == Cardinality(upTo(k))
           f == [k \in S |-> rank(k)]
<1>1. /\ S \subseteq RecKeys /\ IsFiniteSet(S) /\ n \in Nat /\ n <= Cardinality(RecKeys)
  <2>1. S \in SUBSET RecKeys
    BY DEF RowsAfter
  <2> QED BY <2>1, ShellAssumption, FS_Subset, FS_CardinalityType
<1>2. \A k \in S : recs[k].seq \in Nat /\ recs[k].seq > since
  BY DEF RowsAfter, RecsInv, Seqs
<1>3. \A j, k \in S : recs[j].seq = recs[k].seq => j = k
  BY <1>1, <1>2 DEF RecsInv
<1>4. ASSUME NEW k \in S PROVE rank(k) \in 1 .. n /\ IsFiniteSet(upTo(k))
  <2>1. upTo(k) \in SUBSET S /\ {k} \in SUBSET upTo(k)
    BY <1>2
  <2>2. IsFiniteSet(upTo(k)) /\ rank(k) \in Nat /\ rank(k) <= n
    BY <1>1, <2>1, FS_Subset, FS_CardinalityType
  <2>3. Cardinality({k}) = 1 /\ Cardinality({k}) <= rank(k)
    BY <2>1, <2>2, FS_Subset, FS_Singleton
  <2> QED BY <1>1, <2>2, <2>3
<1>5. ASSUME NEW j \in S, NEW k \in S, recs[j].seq < recs[k].seq PROVE rank(j) < rank(k)
  <2>1. upTo(j) \in SUBSET upTo(k) /\ k \in upTo(k) /\ k \notin upTo(j)
    BY <1>2, <1>5
  <2>2. IsFiniteSet(upTo(k)) /\ rank(j) \in Nat /\ rank(k) \in Nat
    BY <1>4
  <2>3. rank(j) <= rank(k) /\ (rank(k) = rank(j) => upTo(k) = upTo(j))
    BY <2>1, <2>2, FS_Subset
  <2>4. rank(k) # rank(j)
    BY <2>1, <2>3
  <2> HIDE DEF rank
  <2> QED BY <2>2, <2>3, <2>4
<1>6. \A j, k \in S : rank(j) = rank(k) => j = k
  <2> SUFFICES ASSUME NEW j \in S, NEW k \in S, rank(j) = rank(k), j # k PROVE FALSE
    OBVIOUS
  <2>1. recs[j].seq < recs[k].seq \/ recs[k].seq < recs[j].seq
    BY <1>2, <1>3
  <2>2. rank(j) \in Nat /\ rank(k) \in Nat
    BY <1>4
  <2>3. rank(j) < rank(k) \/ rank(k) < rank(j)
    BY <1>5, <2>1
  <2> HIDE DEF rank
  <2> QED BY <2>2, <2>3
<1>7. \A i \in 1 .. n : \E k \in S : rank(k) = i
  <2>1. f \in [S -> 1 .. n] /\ \A k \in S : f[k] = rank(k)
    BY <1>4
  <2>2. f \in Injection(S, 1 .. n)
    BY <1>6, <2>1 DEF Injection, IsInjective
  <2>3. IsFiniteSet(1 .. n) /\ Cardinality(1 .. n) = n
    BY <1>1, FS_Interval
  <2>4. f \in Surjection(S, 1 .. n)
    BY <2>2, <2>3, FS_Injection
  <2> QED BY <2>1, <2>4 DEF Surjection
<1>8. ASSUME NEW i \in 1 .. n PROVE Nth(S, i) \in S /\ rank(Nth(S, i)) = i
  BY <1>7 DEF Nth
<1> HIDE DEF rank, f
<1>9. ASSUME NEW i \in 1 .. n, NEW j \in 1 .. n, i < j
      PROVE  recs[Nth(S, i)].seq < recs[Nth(S, j)].seq
  <2>1. PICK p : p = Nth(S, i)
    OBVIOUS
  <2>2. PICK q : q = Nth(S, j)
    OBVIOUS
  <2>3. p \in S /\ q \in S /\ rank(p) = i /\ rank(q) = j
    BY <1>8, <2>1, <2>2
  <2>4. ~ (recs[q].seq < recs[p].seq) /\ recs[q].seq # recs[p].seq
    BY <1>3, <1>5, <1>9, <2>3
  <2> QED BY <1>2, <2>1, <2>2, <2>3, <2>4
<1>10. ASSUME NEW k \in S PROVE \E i \in 1 .. n : Nth(S, i) = k
  <2>1. PICK i : i = rank(k)
    OBVIOUS
  <2>2. i \in 1 .. n
    BY <1>4, <2>1
  <2>3. PICK p : p = Nth(S, i)
    OBVIOUS
  <2>4. p \in S /\ rank(p) = rank(k)
    BY <1>8, <2>1, <2>2, <2>3
  <2> QED BY <1>6, <2>2, <2>3, <2>4
<1> QED BY <1>1, <1>8, <1>9, <1>10

-----------------------------------------------------------------------------
(* What is on the wire of a stream. A record message is of a row as it was *)
(* at some time; they come in the order of their seq; and while the table  *)
(* fits a batch, every row beyond the shell's cursor is under way.         *)
IsRec(m) == m.kind \in {"upsert", "delete"}
MsgOK(m) ==
    /\ m \in Messages
    /\ m.kind \in {"event", "complete", "upsert", "delete"}
    /\ m.kind = "event" => m.id \in 1 .. events
    /\ IsRec(m) =>
          /\ m.key \in RecKeys /\ m.seq \in 1 .. recs[m.key].seq
          /\ m.seq = recs[m.key].seq =>
                m.kind = IF recs[m.key].live THEN "upsert" ELSE "delete"
Ordered(w) ==
    \A i, j \in 1 .. Len(w) : i < j /\ IsRec(w[i]) /\ IsRec(w[j]) => w[i].seq < w[j].seq
Covered(w, cursor) ==
    \A k \in RecKeys : recs[k].seq > cursor =>
        \E i \in 1 .. Len(w) : w[i] = RecordMsg(k, recs[k])
WireOK(w) ==
    /\ \A i \in 1 .. Len(w) : MsgOK(w[i])
    /\ Ordered(w)
    /\ Cardinality(RecKeys) <= Batch => Covered(w, storeSeq)

Flow(x) ==
    /\ x.state \in {"connecting", "open", "cut", "closed"}
    /\ x.wire \in Seq(Messages)
    /\ IF x.state = "open" THEN WireOK(x.wire) ELSE x.wire = << >>
FlowInv == \A x \in {socks[n] : n \in DOMAIN socks} : Flow(x)

MiscTyped ==
    /\ events \in 0 .. MaxEvent
    /\ DOMAIN socks \subseteq 1 .. MaxSock
    /\ ws \in {0} \cup DOMAIN socks
    /\ timer \in BOOLEAN /\ loss \in 0 .. MaxLoss
    /\ iframeReady \in BOOLEAN /\ replayDone \in BOOLEAN
    /\ replayBuffer \in Seq(1 .. MaxEvent) /\ lastEventId \in 0 .. events
    /\ seen \in Seq(1 .. MaxEvent)

(* The shell's store, and that it is right about all rows up to its cursor.*)
UpToCursor ==
    \A k \in RecKeys : recs[k].seq <= storeSeq =>
        /\ \A e \in MapRows(store) :
              e.key = k => recs[k].live = TRUE /\ e = Entry(k, recs[k].seq)
        /\ recs[k].live = TRUE => Entry(k, recs[k].seq) \in MapRows(store)
CopyInv ==
    /\ MapOK(store) /\ storeSeq \in 0 .. RecHead
    /\ \A e \in MapRows(store) : e.seq <= storeSeq
    /\ Cardinality(RecKeys) <= Batch => UpToCursor

(* The page's, which is empty before the page is ready.                    *)
PageInv ==
    /\ MapOK(pageStore) /\ pageSeq \in 0 .. storeSeq
    /\ MapRows(pageStore) \subseteq MapRows(store)
    /\ iframeReady = FALSE => pageStore = << >> /\ pageSeq = 0

ShellIInv == LinkIInv /\ RecsInv /\ MiscTyped /\ CopyInv /\ PageInv /\ FlowInv

LEMMA HeadOf ==
  ASSUME NEW R, R \in [RecKeys -> [seq : Seqs, live : BOOLEAN]],
         NEW h, h = SetMax({R[k].seq : k \in RecKeys})
  PROVE  h \in Seqs /\ \A k \in RecKeys : R[k].seq \in Seqs /\ R[k].seq <= h
<1>1. PICK S : S = {R[k].seq : k \in RecKeys}
  OBVIOUS
<1>2. S \in SUBSET Seqs /\ \A k \in RecKeys : R[k].seq \in S
  BY <1>1
<1> QED BY <1>1, <1>2, GreatestOf

LEMMA RowsBelowHead == RecsInv => /\ RecHead \in Seqs /\ RecHead \in Nat
                                 /\ \A k \in RecKeys : recs[k].seq \in Nat
                                                       /\ recs[k].seq <= RecHead
BY HeadOf DEF RecsInv, RecHead, Seqs

(* The kinds and fields of messages.                                       *)
LEMMA MessageKinds ==
  /\ CompleteMsg \in Messages /\ CompleteMsg.kind = "complete"
  /\ \A i \in 1 .. MaxEvent : /\ EventMsg(i) \in Messages /\ EventMsg(i).kind = "event"
                              /\ EventMsg(i).id = i
  /\ \A k \in RecKeys : \A s \in Seqs : \A l \in BOOLEAN :
        RecordMsg(k, [seq |-> s, live |-> l]) \in Messages
<1>1. CompleteMsg \in Messages /\ CompleteMsg.kind = "complete"
  BY DEF Messages, CompleteMsg
<1>2. ASSUME NEW i \in 1 .. MaxEvent
      PROVE  EventMsg(i) \in Messages /\ EventMsg(i).kind = "event" /\ EventMsg(i).id = i
  BY DEF Messages, EventMsg
<1>3. ASSUME NEW k \in RecKeys, NEW s \in Seqs, NEW l \in BOOLEAN
      PROVE  RecordMsg(k, [seq |-> s, live |-> l]) \in Messages
  BY DEF Messages
<1> QED BY <1>1, <1>2, <1>3

LEMMA RecordFields ==
  ASSUME NEW k \in RecKeys, NEW r \in [seq : Seqs, live : BOOLEAN], NEW m, m = RecordMsg(k, r)
  PROVE  /\ m \in Messages /\ m.kind = (IF r.live THEN "upsert" ELSE "delete")
         /\ IsRec(m) /\ m.key = k /\ m.seq = r.seq /\ m.kind # "event"
<1>1. r = [seq |-> r.seq, live |-> r.live] /\ r.seq \in Seqs /\ r.live \in BOOLEAN
  OBVIOUS
<1>2. m \in Messages
  BY <1>1, MessageKinds
<1>3. m = [kind |-> IF r.live THEN "upsert" ELSE "delete", key |-> k, seq |-> r.seq]
  BY DEF RecordMsg
<1> QED BY <1>2, <1>3 DEF IsRec

(* What a stream starts with.                                              *)
LEMMA ReplayWire ==
  ASSUME RecsInv, events \in 0 .. MaxEvent, NEW since \in 0 .. events, NEW cursor \in Nat,
         NEW w, w = Replay(since, cursor)
  PROVE  /\ w \in Seq(Messages) /\ \A i \in 1 .. Len(w) : MsgOK(w[i])
         /\ Ordered(w)
         /\ Cardinality(RecKeys) <= Batch => Covered(w, cursor)
<1>1. PICK S : S = RowsAfter(cursor)
  OBVIOUS
<1>2. PICK c : c = Cardinality(S)
  OBVIOUS
<1>3. /\ S \subseteq RecKeys /\ c \in Nat /\ c <= Cardinality(RecKeys)
      /\ \A i \in 1 .. c : Nth(S, i) \in S
      /\ \A i, j \in 1 .. c : i < j => recs[Nth(S, i)].seq < recs[Nth(S, j)].seq
      /\ \A k \in S : \E i \in 1 .. c : Nth(S, i) = k
  BY <1>1, <1>2, RowsInOrder
<1>4. PICK n : n = IF c < Batch THEN c ELSE Batch
  OBVIOUS
<1>5. n \in Nat /\ n <= c /\ (Cardinality(RecKeys) <= Batch => n = c)
  <2>1. Batch \in Nat /\ Cardinality(RecKeys) \in Nat
    BY ShellAssumption, FS_CardinalityType
  <2> QED BY <1>3, <1>4, <2>1
<1>6. PICK a : a = [i \in 1 .. events - since |-> EventMsg(since + i)]
  OBVIOUS
<1>7. PICK b : b = [i \in 1 .. n |-> RecordMsg(Nth(S, i), recs[Nth(S, i)])]
  OBVIOUS
<1>8. PICK l \in Nat : l = events - since
  OBVIOUS
<1>9. events \in Nat /\ since \in Nat /\ MaxEvent \in Nat /\ events <= MaxEvent
  BY ShellAssumption
<1>10. a \in Seq(Messages) /\ Len(a) = l /\ \A i \in 1 .. l : a[i] = EventMsg(since + i)
  <2>1. \A i \in 1 .. l : since + i \in 1 .. MaxEvent
    BY <1>8, <1>9
  <2>2. \A i \in 1 .. l : EventMsg(since + i) \in Messages
    BY <2>1, MessageKinds
  <2>3. a \in [1 .. l -> Messages] /\ \A i \in 1 .. l : a[i] = EventMsg(since + i)
    BY <1>6, <1>8, <2>2
  <2> QED BY <1>8, <2>3
<1>11. \A i \in 1 .. n : /\ Nth(S, i) \in RecKeys
                         /\ recs[Nth(S, i)] \in [seq : Seqs, live : BOOLEAN]
                         /\ recs[Nth(S, i)].seq > cursor /\ recs[Nth(S, i)].seq \in Nat
  BY <1>1, <1>3, <1>5 DEF RowsAfter, RecsInv, Seqs
<1>12. b \in Seq(Messages) /\ Len(b) = n
       /\ \A i \in 1 .. n : b[i] = RecordMsg(Nth(S, i), recs[Nth(S, i)])
  <2>1. \A i \in 1 .. n : RecordMsg(Nth(S, i), recs[Nth(S, i)]) \in Messages
    BY <1>11, RecordFields
  <2>2. b \in [1 .. n -> Messages]
        /\ \A i \in 1 .. n : b[i] = RecordMsg(Nth(S, i), recs[Nth(S, i)])
    BY <1>7, <2>1
  <2> QED BY <1>5, <2>2
<1>13. PICK d : d = a \o <<CompleteMsg>>
  OBVIOUS
<1>14. /\ d \in Seq(Messages) /\ Len(d) = l + 1 /\ d[l + 1] = CompleteMsg
       /\ \A i \in 1 .. l : d[i] = EventMsg(since + i)
  <2>1. d = Append(a, CompleteMsg)
    BY <1>10, <1>13, MessageKinds, AppendIsConcat
  <2> QED BY <1>10, <2>1, MessageKinds, AppendProperties
<1>15. w = d \o b
  BY <1>1, <1>2, <1>4, <1>6, <1>7, <1>13 DEF Replay
<1>16. /\ w \in Seq(Messages) /\ Len(w) = l + 1 + n
       /\ \A i \in 1 .. l + 1 + n : w[i] = IF i <= l + 1 THEN d[i] ELSE b[i - (l + 1)]
  <2>1. d \in Seq(Messages) /\ b \in Seq(Messages)
    BY <1>12, <1>14
  <2>2. /\ d \o b \in Seq(Messages) /\ Len(d \o b) = Len(d) + Len(b)
        /\ \A i \in 1 .. Len(d) + Len(b) :
              (d \o b)[i] = IF i <= Len(d) THEN d[i] ELSE b[i - Len(d)]
    BY <2>1, ConcatProperties
  <2>3. Len(d) = l + 1 /\ Len(b) = n
    BY <1>12, <1>14
  <2> QED BY <1>15, <2>2, <2>3, Zenon
<1>17. ASSUME NEW i \in 1 .. l + 1 + n
       PROVE  \/ i <= l + 1 /\ MsgOK(w[i]) /\ ~ IsRec(w[i])
              \/ /\ i - (l + 1) \in 1 .. n /\ MsgOK(w[i])
                 /\ w[i].seq = recs[Nth(S, i - (l + 1))].seq
  <2>1. CASE i <= l
    <3>1. w[i] = EventMsg(since + i) /\ since + i \in 1 .. events /\ since + i \in 1 .. MaxEvent
      BY <1>8, <1>9, <1>14, <1>16, <2>1
    <3> QED BY <2>1, <3>1, MessageKinds DEF MsgOK, IsRec
  <2>2. CASE i = l + 1
    <3>1. w[i] = CompleteMsg
      BY <1>14, <1>16, <2>2
    <3> QED BY <2>2, <3>1, MessageKinds DEF MsgOK, IsRec
  <2>3. CASE i > l + 1
    <3>1. PICK p : p = i - (l + 1)
      OBVIOUS
    <3>2. p \in 1 .. n
      BY <1>5, <2>3, <3>1
    <3>3. PICK k : k = Nth(S, p)
      OBVIOUS
    <3>4. w[i] = RecordMsg(k, recs[k])
      <4>1. l + 1 \in Nat /\ i \in Nat /\ ~ (i <= l + 1)
        BY <1>5, <2>3
      <4>2. w[i] = b[i - (l + 1)]
        BY <1>16, <4>1, Zenon
      <4>3. w[i] = b[p]
        BY <3>1, <4>2
      <4>4. b[p] = RecordMsg(k, recs[k])
        BY <1>12, <3>2, <3>3
      <4> QED BY <4>3, <4>4
    <3>5. k \in RecKeys /\ recs[k] \in [seq : Seqs, live : BOOLEAN]
          /\ recs[k].seq \in 1 .. recs[k].seq
      BY <1>11, <3>2, <3>3
    <3>6. /\ w[i] \in Messages /\ w[i].kind = (IF recs[k].live THEN "upsert" ELSE "delete")
          /\ w[i].key = k /\ w[i].seq = recs[k].seq
      BY <3>4, <3>5, RecordFields
    <3>7. MsgOK(w[i])
      BY <3>5, <3>6 DEF MsgOK, IsRec
    <3> QED BY <3>1, <3>2, <3>3, <3>6, <3>7
  <2> QED BY <2>1, <2>2, <2>3
<1>18. Ordered(w)
  <2> SUFFICES ASSUME NEW i \in 1 .. l + 1 + n, NEW j \in 1 .. l + 1 + n, i < j,
                      IsRec(w[i]), IsRec(w[j])
               PROVE  w[i].seq < w[j].seq
    BY <1>16 DEF Ordered
  <2>1. PICK p : p = i - (l + 1)
    OBVIOUS
  <2>2. PICK q : q = j - (l + 1)
    OBVIOUS
  <2>3. /\ i - (l + 1) \in 1 .. n /\ w[i].seq = recs[Nth(S, i - (l + 1))].seq
        /\ j - (l + 1) \in 1 .. n /\ w[j].seq = recs[Nth(S, j - (l + 1))].seq
    BY <1>17
  <2>4. p \in 1 .. c /\ q \in 1 .. c /\ p < q
    BY <1>3, <1>5, <2>1, <2>2, <2>3
  <2> QED BY <1>3, <2>1, <2>2, <2>3, <2>4
<1>19. ASSUME Cardinality(RecKeys) <= Batch PROVE Covered(w, cursor)
  <2> SUFFICES ASSUME NEW k \in RecKeys, recs[k].seq > cursor
               PROVE  \E i \in 1 .. Len(w) : w[i] = RecordMsg(k, recs[k])
    BY DEF Covered
  <2>1. k \in S /\ n = c
    BY <1>1, <1>5, <1>19 DEF RowsAfter
  <2>2. PICK p \in 1 .. n : Nth(S, p) = k
    BY <1>3, <2>1
  <2>3. b[p] = RecordMsg(k, recs[k])
    BY <1>12, <2>2
  <2>4. PICK i : i = l + 1 + p
    OBVIOUS
  <2>5. i \in 1 .. l + 1 + n /\ i - (l + 1) = p /\ ~ (i <= l + 1)
    BY <1>5, <2>2, <2>4
  <2>6. w[i] = RecordMsg(k, recs[k])
    BY <1>16, <2>3, <2>5
  <2> QED BY <1>16, <2>5, <2>6
<1>20. \A i \in 1 .. Len(w) : MsgOK(w[i])
  BY <1>16, <1>17
<1> QED BY <1>16, <1>18, <1>19, <1>20

-----------------------------------------------------------------------------
(* The steps. A socket that is not open has nothing on its wire; only the  *)
(* current one is not closed.                                              *)
LEMMA QuietFlow ==
  ASSUME NEW x, Flow(x), x.state # "open"
  PROVE  Flow(x)'
BY DEF Flow

LEMMA SameFlow ==
  ASSUME NEW x, Flow(x), UNCHANGED <<recs, events, storeSeq>>
  PROVE  Flow(x)'
BY DEF Flow, WireOK, MsgOK, Covered

LEMMA OneFlows ==
  ASSUME LinkIInv, FlowInv, NEW n \in DOMAIN socks, socks[n].state # "closed",
         NEW x, IsSocket(x), Flow(x)', socks' = [socks EXCEPT ![n] = x]
  PROVE  FlowInv' /\ DOMAIN socks' = DOMAIN socks
<1>1. /\ DOMAIN socks' = DOMAIN socks /\ socks'[n] = x
      /\ \A m \in DOMAIN socks : m # n => socks'[m] = socks[m]
  BY SocketWritten
<1>2. \A m \in DOMAIN socks : m # n => socks[m].state = "closed"
  BY DEF LinkIInv
<1>3. ASSUME NEW y \in {socks'[m] : m \in DOMAIN socks'} PROVE Flow(y)'
  <2>1. PICK m \in DOMAIN socks : y = socks'[m]
    BY <1>1
  <2>2. CASE m = n
    BY <1>1, <2>1, <2>2
  <2>3. CASE m # n
    <3>1. y = socks[m] /\ y.state = "closed" /\ Flow(y)
      BY <1>1, <1>2, <2>1, <2>3 DEF FlowInv
    <3> QED BY <3>1, QuietFlow
  <2> QED BY <2>2, <2>3
<1> QED BY <1>1, <1>3 DEF FlowInv

(* What a push does to the wires.                                          *)
LEMMA PostFlows ==
  ASSUME LinkIInv, FlowInv, NEW msg, msg \in Messages, socks' = Post(msg),
         \A x, y : /\ Flow(x) /\ x.state = "open" /\ y.state = "open"
                   /\ y.wire = Append(x.wire, msg)
                   => Flow(y)'
  PROVE  FlowInv' /\ DOMAIN socks' = DOMAIN socks
<1>1. DOMAIN socks' = DOMAIN socks
  BY DEF Post
<1>2. ASSUME NEW y \in {socks'[m] : m \in DOMAIN socks'} PROVE Flow(y)'
  <2>1. PICK m \in DOMAIN socks : y = socks'[m]
    BY <1>1
  <2>2. PICK x : x = socks[m]
    OBVIOUS
  <2>3. Flow(x) /\ x = [state |-> x.state, wire |-> x.wire]
    BY <2>2 DEF FlowInv, LinkIInv, IsSocket
  <2>4. CASE x.state = "open"
    <3>1. PICK v : v = Append(x.wire, msg)
      OBVIOUS
    <3>2. y = [x EXCEPT !.wire = v]
      BY <2>1, <2>2, <2>4, <3>1 DEF Post
    <3>3. y.state = "open" /\ y.wire = Append(x.wire, msg)
      BY <2>3, <2>4, <3>1, <3>2
    <3> QED BY <2>3, <2>4, <3>3
  <2>5. CASE x.state # "open"
    <3>1. y = x
      BY <2>1, <2>2, <2>5 DEF Post
    <3> QED BY <2>3, <2>5, <3>1, QuietFlow
  <2> QED BY <2>4, <2>5
<1> QED BY <1>1, <1>2 DEF FlowInv

(* A message more at the end, a message less at the front.                 *)
LEMMA WireGrows ==
  ASSUME NEW w \in Seq(Messages), NEW msg \in Messages, NEW v, v = Append(w, msg)
  PROVE  /\ v \in Seq(Messages) /\ Len(w) \in Nat /\ Len(v) = Len(w) + 1
         /\ v[Len(w) + 1] = msg /\ \A i \in 1 .. Len(w) : v[i] = w[i]
         /\ \A i \in 1 .. Len(w) + 1 : i = Len(w) + 1 \/ i \in 1 .. Len(w)
<1>1. PICK n \in Nat : n = Len(w)
  BY LenProperties
<1>2. \A i \in 1 .. n + 1 : i = n + 1 \/ i \in 1 .. n
  OBVIOUS
<1> QED BY <1>1, <1>2, AppendProperties

LEMMA WireShrinks ==
  ASSUME NEW w \in Seq(Messages), w # << >>, WireOK(w), NEW v, v = Tail(w),
         UNCHANGED <<recs, events>>, storeSeq \in Nat, storeSeq' \in Nat, storeSeq <= storeSeq',
         \A k \in RecKeys : recs[k] \in [seq : Seqs, live : BOOLEAN],
         IsRec(w[1]) => w[1].seq <= storeSeq'
  PROVE  v \in Seq(Messages) /\ WireOK(v)'
<1>1. PICK n \in Nat : n = Len(w) /\ n >= 1
  BY EmptySeq, LenProperties
<1>2. v \in Seq(Messages) /\ Len(v) = n - 1 /\ \A i \in 1 .. n - 1 : v[i] = w[i + 1]
  BY <1>1, HeadTailProperties
<1>3. \A i \in 1 .. n - 1 : i + 1 \in 1 .. n
  BY <1>1
<1>4. ASSUME NEW i \in 1 .. Len(v) PROVE MsgOK(v[i])'
  <2>1. PICK m : m = v[i]
    OBVIOUS
  <2>2. MsgOK(m)
    BY <1>1, <1>2, <1>3, <2>1 DEF WireOK
  <2>3. MsgOK(m)'
    BY <2>2 DEF MsgOK
  <2> QED BY <2>1, <2>3
<1>5. Ordered(v)
  <2>1. \A i, j \in 1 .. n : i < j /\ IsRec(w[i]) /\ IsRec(w[j]) => w[i].seq < w[j].seq
    BY <1>1 DEF WireOK, Ordered
  <2>2. \A i, j \in 1 .. n - 1 : i < j => i + 1 < j + 1
    OBVIOUS
  <2> QED BY <1>2, <1>3, <2>1, <2>2 DEF Ordered
<1>6. ASSUME Cardinality(RecKeys) <= Batch, NEW k \in RecKeys, recs[k].seq > storeSeq'
      PROVE  \E i \in 1 .. Len(v) : v[i] = RecordMsg(k, recs[k])
  <2>1. PICK s : s = recs[k].seq
    OBVIOUS
  <2>2. s \in Nat /\ s > storeSeq /\ s > storeSeq'
    BY <1>6, <2>1 DEF Seqs
  <2>3. PICK i \in 1 .. n : w[i] = RecordMsg(k, recs[k])
    BY <1>1, <1>6, <2>1, <2>2 DEF WireOK, Covered
  <2>4. IsRec(w[i]) /\ w[i].seq = s
    BY <2>1, <2>3, RecordFields
  <2>5. i # 1
    BY <2>2, <2>4
  <2>6. i - 1 \in 1 .. n - 1 /\ v[i - 1] = w[i]
    BY <1>1, <1>2, <2>5
  <2> QED BY <1>2, <2>3, <2>6
<1> QED BY <1>2, <1>4, <1>5, <1>6 DEF WireOK, Covered

LEMMA AppendEventShell ==
  ASSUME ShellIInv, LinkIInv', AppendEvent
  PROVE  ShellIInv'
<1>1. PICK msg : msg = EventMsg(events + 1)
  OBVIOUS
<1>2. /\ events' = events + 1 /\ events \in Nat /\ events' \in 1 .. MaxEvent
      /\ events' \in 0 .. MaxEvent /\ 0 .. events \subseteq 0 .. events'
      /\ socks' = Post(msg)
      /\ UNCHANGED <<recs, ws, timer, loss, iframeReady, feedVars, pageVars>>
  BY <1>1, ShellAssumption DEF AppendEvent, ShellIInv, MiscTyped
<1>3. msg \in Messages /\ msg.kind = "event" /\ msg.id = events'
  BY <1>1, <1>2, MessageKinds
<1>4. ASSUME NEW x, NEW y, Flow(x), x.state = "open", y.state = "open",
             y.wire = Append(x.wire, msg)
      PROVE  Flow(y)'
  <2>1. PICK w : w = x.wire
    OBVIOUS
  <2>2. PICK v : v = y.wire
    OBVIOUS
  <2>3. w \in Seq(Messages) /\ WireOK(w) /\ v = Append(w, msg)
    BY <1>4, <2>1, <2>2 DEF Flow
  <2>4. PICK n : n = Len(w)
    OBVIOUS
  <2>5. /\ v \in Seq(Messages) /\ n \in Nat /\ Len(v) = n + 1 /\ v[n + 1] = msg
        /\ \A i \in 1 .. n : v[i] = w[i]
        /\ \A i \in 1 .. n + 1 : i = n + 1 \/ i \in 1 .. n
    BY <1>3, <2>3, <2>4, WireGrows
  <2>6. ASSUME NEW i \in 1 .. n + 1 PROVE MsgOK(v[i])'
    <3>1. CASE i = n + 1
      BY <1>2, <1>3, <2>5, <3>1 DEF MsgOK, IsRec
    <3>2. CASE i \in 1 .. n
      <4>1. PICK m : m = v[i]
        OBVIOUS
      <4>2. MsgOK(m)
        BY <2>3, <2>4, <2>5, <3>2, <4>1 DEF WireOK
      <4>3. MsgOK(m)'
        BY <1>2, <4>2 DEF MsgOK
      <4> QED BY <4>1, <4>3
    <3> QED BY <2>5, <3>1, <3>2
  <2>7. Ordered(v)
    <3>1. \A i, j \in 1 .. n : i < j /\ IsRec(w[i]) /\ IsRec(w[j]) => w[i].seq < w[j].seq
      BY <2>3, <2>4 DEF WireOK, Ordered
    <3>2. ~ IsRec(v[n + 1])
      BY <1>3, <2>5 DEF IsRec
    <3> QED BY <2>5, <3>1, <3>2 DEF Ordered
  <2>8. ASSUME Cardinality(RecKeys) <= Batch PROVE Covered(v, storeSeq)'
    <3>1. Covered(w, storeSeq)
      BY <2>3, <2>8 DEF WireOK
    <3> QED BY <1>2, <2>4, <2>5, <3>1 DEF Covered, feedVars
  <2>9. WireOK(v)'
    BY <2>5, <2>6, <2>7, <2>8 DEF WireOK
  <2> QED BY <1>4, <2>2, <2>5, <2>9 DEF Flow
<1>5. FlowInv' /\ DOMAIN socks' = DOMAIN socks
  BY <1>2, <1>3, <1>4, PostFlows DEF ShellIInv
<1>6. MiscTyped'
  BY <1>2, <1>5 DEF ShellIInv, MiscTyped, feedVars, pageVars
<1>7. RecsInv' /\ CopyInv' /\ PageInv'
  BY <1>2 DEF ShellIInv, RecsInv, CopyInv, PageInv, UpToCursor, RecHead, feedVars, pageVars
<1> QED BY <1>5, <1>6, <1>7 DEF ShellIInv

LEMMA WriteRecordShell ==
  ASSUME ShellIInv, LinkIInv', NEW k \in RecKeys, WriteRecord(k)
  PROVE  ShellIInv'
<1>1. PICK h : h = RecHead
  OBVIOUS
<1>2. /\ h \in Nat /\ h < MaxSeq /\ storeSeq \in 0 .. h /\ MaxSeq \in Nat
      /\ \A j \in RecKeys : recs[j].seq \in Nat /\ recs[j].seq <= h
      /\ recs \in [RecKeys -> [seq : Seqs, live : BOOLEAN]]
  BY <1>1, RowsBelowHead, ShellAssumption DEF ShellIInv, WriteRecord, CopyInv, RecsInv
<1>3. PICK live \in BOOLEAN : /\ recs' = [recs EXCEPT ![k] = [seq |-> h + 1, live |-> live]]
                              /\ socks' = Post(RecordMsg(k, [seq |-> h + 1, live |-> live]))
  BY <1>1 DEF WriteRecord
<1>4. PICK r : r = [seq |-> h + 1, live |-> live]
  OBVIOUS
<1>5. PICK msg : msg = RecordMsg(k, r)
  OBVIOUS
<1>6. /\ r \in [seq : Seqs, live : BOOLEAN] /\ r.seq = h + 1 /\ r.live = live
      /\ h + 1 \in Seqs /\ h + 1 \in Nat
  BY <1>2, <1>4 DEF Seqs
<1>7. /\ msg \in Messages /\ msg.kind = (IF r.live THEN "upsert" ELSE "delete")
      /\ IsRec(msg) /\ msg.key = k /\ msg.seq = h + 1 /\ msg.kind # "event"
  BY <1>5, <1>6, RecordFields
<1>8. /\ recs' = [recs EXCEPT ![k] = r] /\ socks' = Post(msg)
      /\ UNCHANGED <<events, ws, timer, loss, iframeReady, feedVars, pageVars>>
  BY <1>3, <1>4, <1>5 DEF WriteRecord
<1>9. /\ recs' \in [RecKeys -> [seq : Seqs, live : BOOLEAN]]
      /\ recs'[k] = r /\ \A j \in RecKeys : j # k => recs'[j] = recs[j]
  BY <1>2, <1>6, <1>8
<1>10. RecsInv'
  <2>1. ASSUME NEW i \in RecKeys, NEW j \in RecKeys, recs'[i].seq = recs'[j].seq, i # j
        PROVE  recs'[i].seq = 0
    <3>1. CASE i # k /\ j # k
      BY <1>9, <2>1, <3>1 DEF ShellIInv, RecsInv
    <3>2. CASE i = k
      BY <1>2, <1>6, <1>9, <2>1, <3>2
    <3>3. CASE j = k
      BY <1>2, <1>6, <1>9, <2>1, <3>3
    <3> QED BY <3>1, <3>2, <3>3
  <2>2. ASSUME NEW i \in RecKeys, recs'[i].seq = 0 PROVE recs'[i].live = FALSE
    <3>1. i # k
      BY <1>2, <1>6, <1>9, <2>2
    <3> QED BY <1>9, <2>2, <3>1 DEF ShellIInv, RecsInv
  <2> QED BY <1>9, <2>1, <2>2 DEF RecsInv
<1>11. RecHead' \in Nat /\ storeSeq \in 0 .. RecHead'
  <2>1. PICK R : R = recs'
    OBVIOUS
  <2>2. PICK g : g = SetMax({R[j].seq : j \in RecKeys})
    OBVIOUS
  <2>3. g \in Seqs /\ R[k].seq <= g
    BY <1>9, <2>1, <2>2, HeadOf
  <2>4. g \in Nat /\ h + 1 <= g
    BY <1>6, <1>9, <2>1, <2>3 DEF Seqs
  <2>5. RecHead' = g
    BY <2>1, <2>2 DEF RecHead
  <2> QED BY <1>2, <2>4, <2>5
<1>12. UNCHANGED <<store, storeSeq, pageStore, pageSeq, lastEventId, seen, replayBuffer,
                   replayDone, iframeReady, events, ws, timer, loss>>
  BY <1>8 DEF feedVars, pageVars
<1>13. CopyInv'
  <2>1. ASSUME Cardinality(RecKeys) <= Batch PROVE UpToCursor'
    <3> SUFFICES ASSUME NEW j \in RecKeys, recs'[j].seq <= storeSeq
                 PROVE  /\ \A e \in MapRows(store) : e.key = j =>
                              recs'[j].live = TRUE /\ e = Entry(j, recs'[j].seq)
                        /\ recs'[j].live = TRUE => Entry(j, recs'[j].seq) \in MapRows(store)
      BY <1>12 DEF UpToCursor
    <3>1. j # k
      BY <1>2, <1>6, <1>9
    <3>2. recs'[j] = recs[j] /\ UpToCursor
      BY <1>9, <2>1, <3>1 DEF ShellIInv, CopyInv
    <3> QED BY <3>2 DEF UpToCursor
  <2> QED BY <1>11, <1>12, <2>1 DEF ShellIInv, CopyInv
<1>14. PageInv'
  BY <1>12 DEF ShellIInv, PageInv
<1>15. ASSUME NEW x, NEW y, Flow(x), x.state = "open", y.state = "open",
             y.wire = Append(x.wire, msg)
      PROVE  Flow(y)'
  <2>1. PICK w : w = x.wire
    OBVIOUS
  <2>2. PICK v : v = y.wire
    OBVIOUS
  <2>3. w \in Seq(Messages) /\ WireOK(w) /\ v = Append(w, msg)
    BY <1>15, <2>1, <2>2 DEF Flow
  <2>4. PICK n : n = Len(w)
    OBVIOUS
  <2>5. /\ v \in Seq(Messages) /\ n \in Nat /\ Len(v) = n + 1 /\ v[n + 1] = msg
        /\ \A i \in 1 .. n : v[i] = w[i]
        /\ \A i \in 1 .. n + 1 : i = n + 1 \/ i \in 1 .. n
    BY <1>7, <2>3, <2>4, WireGrows
  <2>6. MsgOK(msg)'
    <3>1. PICK R : R = recs'
      OBVIOUS
    <3>2. R[msg.key] = r
      BY <1>7, <1>9, <3>1
    <3>3. msg.seq \in 1 .. R[msg.key].seq
      <4>1. R[msg.key].seq = h + 1
        BY <1>6, <3>2
      <4>2. msg.seq = h + 1
        BY <1>7
      <4>3. h + 1 \in 1 .. h + 1
        BY <1>2
      <4> QED BY <4>1, <4>2, <4>3, Zenon
    <3>4. msg.kind = IF R[msg.key].live THEN "upsert" ELSE "delete"
      BY <1>7, <3>2, Zenon
    <3>5. msg.kind \in {"event", "complete", "upsert", "delete"}
      BY <1>7 DEF IsRec
    <3>6. msg.key \in RecKeys
      BY <1>7
    <3> QED BY <1>7, <3>1, <3>3, <3>4, <3>5, <3>6 DEF MsgOK
  <2>7. ASSUME NEW i \in 1 .. n PROVE MsgOK(v[i])' /\ (IsRec(v[i]) => v[i].seq < h + 1)
    <3>1. PICK m : m = v[i]
      OBVIOUS
    <3>2. MsgOK(m)
      BY <2>3, <2>4, <2>5, <3>1 DEF WireOK
    <3>3. ASSUME IsRec(m)
          PROVE  /\ m.key \in RecKeys /\ m.seq \in 1 .. recs'[m.key].seq /\ m.seq < h + 1
                 /\ m.seq = recs'[m.key].seq =>
                       m.kind = IF recs'[m.key].live THEN "upsert" ELSE "delete"
      <4>1. /\ m.key \in RecKeys /\ m.seq \in 1 .. recs[m.key].seq
            /\ m.seq = recs[m.key].seq =>
                  m.kind = IF recs[m.key].live THEN "upsert" ELSE "delete"
        BY <3>2, <3>3 DEF MsgOK
      <4>2. m.seq \in Nat /\ m.seq >= 1 /\ m.seq <= recs[m.key].seq /\ m.seq < h + 1
        BY <1>2, <4>1
      <4>3. CASE m.key = k
        BY <1>6, <1>9, <4>1, <4>2, <4>3
      <4>4. CASE m.key # k
        BY <1>9, <4>1, <4>2, <4>4
      <4> QED BY <4>3, <4>4
    <3>4. MsgOK(m)'
      BY <1>12, <3>2, <3>3 DEF MsgOK
    <3> QED BY <3>1, <3>3, <3>4
  <2>8. \A i \in 1 .. n + 1 : MsgOK(v[i])'
    <3> SUFFICES ASSUME NEW i \in 1 .. n + 1 PROVE MsgOK(v[i])'
      OBVIOUS
    <3>1. CASE i = n + 1
      BY <2>5, <2>6, <3>1
    <3>2. CASE i \in 1 .. n
      BY <2>7, <3>2
    <3> QED BY <2>5, <3>1, <3>2
  <2>9. Ordered(v)
    <3>1. \A i, j \in 1 .. n : i < j /\ IsRec(w[i]) /\ IsRec(w[j]) => w[i].seq < w[j].seq
      BY <2>3, <2>4 DEF WireOK, Ordered
    <3>2. \A i \in 1 .. n : IsRec(v[i]) => v[i].seq < v[n + 1].seq
      BY <1>7, <2>5, <2>7
    <3> QED BY <2>5, <3>1, <3>2 DEF Ordered
  <2>10. ASSUME Cardinality(RecKeys) <= Batch, NEW j \in RecKeys, recs'[j].seq > storeSeq
         PROVE  \E i \in 1 .. n + 1 : v[i] = RecordMsg(j, recs'[j])
    <3>1. CASE j = k
      <4>1. v[n + 1] = RecordMsg(j, recs'[j]) /\ n + 1 \in 1 .. n + 1
        BY <1>5, <1>9, <2>5, <3>1
      <4> QED BY <4>1
    <3>2. CASE j # k
      <4>1. recs'[j] = recs[j]
        BY <1>9, <3>2
      <4>2. PICK i \in 1 .. n : w[i] = RecordMsg(j, recs[j])
        BY <2>3, <2>4, <2>10, <4>1 DEF WireOK, Covered
      <4> QED BY <2>5, <4>1, <4>2
    <3> QED BY <3>1, <3>2
  <2>11. WireOK(v)'
    BY <1>12, <2>5, <2>8, <2>9, <2>10 DEF WireOK, Covered
  <2> QED BY <1>15, <2>2, <2>5, <2>11 DEF Flow
<1>16. FlowInv' /\ DOMAIN socks' = DOMAIN socks
  BY <1>7, <1>8, <1>15, PostFlows DEF ShellIInv
<1>17. MiscTyped'
  BY <1>12, <1>16 DEF ShellIInv, MiscTyped
<1> QED BY <1>10, <1>13, <1>14, <1>16, <1>17 DEF ShellIInv

(* What leaves the copies and the relay's tables alone.                    *)
LEMMA CopiesStay ==
  ASSUME ShellIInv, UNCHANGED <<relayVars, feedVars, pageVars, iframeReady>>
  PROVE  RecsInv' /\ CopyInv' /\ PageInv'
         /\ UNCHANGED <<recs, events, storeSeq, lastEventId, seen, replayBuffer, replayDone>>
BY DEF ShellIInv, RecsInv, CopyInv, PageInv, UpToCursor, RecHead, relayVars, feedVars, pageVars

LEMMA TimerShell ==
  ASSUME ShellIInv, LinkIInv', Fire \/ MintFails
  PROVE  ShellIInv'
<1>1. UNCHANGED <<relayVars, socks, ws, feedVars, pageVars, iframeReady>>
      /\ timer' \in BOOLEAN /\ loss' \in 0 .. MaxLoss
  <2>1. loss \in 0 .. MaxLoss /\ MaxLoss \in Nat
    BY ShellAssumption DEF ShellIInv, MiscTyped
  <2>2. CASE Fire
    BY <2>1, <2>2 DEF Fire
  <2>3. CASE MintFails
    <3>1. loss < MaxLoss /\ loss' = loss + 1
      BY <2>3 DEF MintFails
    <3>2. loss' \in 0 .. MaxLoss
      BY <2>1, <3>1
    <3> QED BY <2>3, <3>2 DEF MintFails
  <2> QED BY <2>2, <2>3
<1>2. RecsInv' /\ CopyInv' /\ PageInv'
      /\ UNCHANGED <<recs, events, storeSeq, lastEventId, seen, replayBuffer, replayDone>>
  BY <1>1, CopiesStay
<1>3. FlowInv'
  <2> SUFFICES ASSUME NEW x \in {socks[n] : n \in DOMAIN socks} PROVE Flow(x)'
    BY <1>1 DEF FlowInv
  <2>1. Flow(x)
    BY DEF ShellIInv, FlowInv
  <2> QED BY <1>2, <2>1, SameFlow
<1>4. MiscTyped'
  BY <1>1, <1>2 DEF ShellIInv, MiscTyped
<1> QED BY <1>2, <1>3, <1>4 DEF ShellIInv

LEMMA MintAnswersShell ==
  ASSUME ShellIInv, LinkIInv', MintAnswers
  PROVE  ShellIInv'
<1>1. UNCHANGED <<relayVars, timer, loss, feedVars, pageVars, iframeReady>>
  BY DEF MintAnswers
<1>2. RecsInv' /\ CopyInv' /\ PageInv'
      /\ UNCHANGED <<recs, events, storeSeq, lastEventId, seen, replayBuffer, replayDone>>
  BY <1>1, CopiesStay
<1>3. PICK m \in Nat : m = Len(socks) /\ DOMAIN socks = 1 .. m
                       /\ socks = [n \in 1 .. m |-> socks[n]] /\ m < MaxSock /\ MaxSock \in Nat
  BY ShellAssumption DEF ShellIInv, LinkIInv, MintAnswers
<1>4. PICK k : k = [state |-> "connecting", wire |-> << >>]
  OBVIOUS
<1>5. socks' = Append(socks, k) /\ ws' = m + 1
  BY <1>3, <1>4 DEF MintAnswers
<1>6. socks' = [n \in 1 .. m + 1 |-> IF n <= m THEN socks[n] ELSE k]
  BY <1>3, <1>5
<1>7. /\ DOMAIN socks' = 1 .. m + 1 /\ socks'[m + 1] = k
      /\ \A n \in 1 .. m : socks'[n] = socks[n]
      /\ \A n \in 1 .. m + 1 : n = m + 1 \/ n \in 1 .. m
  BY <1>3, <1>6
<1>8. ASSUME NEW x \in {socks'[n] : n \in DOMAIN socks'} PROVE Flow(x)'
  <2>1. PICK n \in 1 .. m + 1 : x = socks'[n]
    BY <1>7
  <2>2. CASE n = m + 1
    <3>1. x.state = "connecting" /\ x.wire = << >> /\ << >> \in Seq(Messages)
      BY <1>4, <1>7, <2>1, <2>2, EmptySeq
    <3> QED BY <3>1 DEF Flow
  <2>3. CASE n \in 1 .. m
    <3>1. Flow(x)
      BY <1>3, <1>7, <2>1, <2>3 DEF ShellIInv, FlowInv
    <3> QED BY <1>2, <3>1, SameFlow
  <2> QED BY <1>7, <2>2, <2>3
<1>9. FlowInv'
  BY <1>8 DEF FlowInv
<1>10. DOMAIN socks' \subseteq 1 .. MaxSock /\ ws' \in DOMAIN socks'
  BY <1>3, <1>5, <1>7
<1>11. MiscTyped'
  BY <1>1, <1>2, <1>10 DEF ShellIInv, MiscTyped
<1> QED BY <1>2, <1>9, <1>11 DEF ShellIInv

LEMMA OpensShell ==
  ASSUME ShellIInv, LinkIInv', NEW n \in DOMAIN socks, Opens(n)
  PROVE  ShellIInv'
<1>1. UNCHANGED <<relayVars, ws, timer, loss, feedVars, pageVars, iframeReady>>
  BY DEF Opens
<1>2. RecsInv' /\ CopyInv' /\ PageInv'
      /\ UNCHANGED <<recs, events, storeSeq, lastEventId, seen, replayBuffer, replayDone>>
  BY <1>1, CopiesStay
<1>3. PICK w : w = Replay(lastEventId, storeSeq)
  OBVIOUS
<1>4. PICK x : x = [state |-> "open", wire |-> w]
  OBVIOUS
<1>5. socks' = [socks EXCEPT ![n] = x] /\ socks[n].state # "closed"
  BY <1>3, <1>4 DEF Opens, Cursors
<1>6. x.state = "open" /\ x.wire = w /\ IsSocket(x)
  BY <1>4 DEF IsSocket
<1>7. /\ lastEventId \in 0 .. events /\ events \in 0 .. MaxEvent
      /\ storeSeq \in Nat /\ RecsInv
  BY RowsBelowHead DEF ShellIInv, MiscTyped, CopyInv
<1>8. w \in Seq(Messages) /\ WireOK(w)
  BY <1>3, <1>7, ReplayWire DEF WireOK
<1>9. Flow(x)
  BY <1>6, <1>8 DEF Flow
<1>10. Flow(x)'
  BY <1>2, <1>9, SameFlow
<1>11. FlowInv' /\ DOMAIN socks' = DOMAIN socks
  BY <1>5, <1>6, <1>10, OneFlows DEF ShellIInv
<1>12. MiscTyped'
  BY <1>1, <1>2, <1>11 DEF ShellIInv, MiscTyped
<1> QED BY <1>2, <1>11, <1>12 DEF ShellIInv

LEMMA EndsShell ==
  ASSUME ShellIInv, LinkIInv', NEW n \in DOMAIN socks, Breaks(n) \/ CloseEvent(n)
  PROVE  ShellIInv'
<1>1. UNCHANGED <<relayVars, feedVars, pageVars, iframeReady>>
      /\ timer' \in BOOLEAN /\ loss' \in 0 .. MaxLoss /\ ws' \in {0, ws}
  <2>1. loss \in 0 .. MaxLoss /\ MaxLoss \in Nat /\ timer \in BOOLEAN
    BY ShellAssumption DEF ShellIInv, MiscTyped
  <2>2. CASE Breaks(n)
    <3>1. loss < MaxLoss /\ loss' = loss + 1
      BY <2>2 DEF Breaks
    <3>2. loss' \in 0 .. MaxLoss
      BY <2>1, <3>1
    <3> QED BY <2>1, <2>2, <3>2 DEF Breaks
  <2>3. CASE CloseEvent(n)
    BY <2>1, <2>3 DEF CloseEvent
  <2> QED BY <2>2, <2>3
<1>2. RecsInv' /\ CopyInv' /\ PageInv'
      /\ UNCHANGED <<recs, events, storeSeq, lastEventId, seen, replayBuffer, replayDone>>
  BY <1>1, CopiesStay
<1>3. PICK k : k = socks[n]
  OBVIOUS
<1>4. Flow(k) /\ k = [state |-> k.state, wire |-> k.wire]
  BY <1>3 DEF ShellIInv, FlowInv, LinkIInv, IsSocket
<1>5. PICK x : /\ socks' = [socks EXCEPT ![n] = x] /\ IsSocket(x) /\ x.wire = << >>
               /\ x.state \in {"cut", "closed"} /\ k.state # "closed"
  <2>1. CASE Breaks(n)
    <3>1. PICK x : x = [state |-> "cut", wire |-> << >>]
      OBVIOUS
    <3>2. socks' = [socks EXCEPT ![n] = x] /\ k.state # "closed"
      BY <1>3, <2>1, <3>1 DEF Breaks
    <3>3. IsSocket(x) /\ x.wire = << >> /\ x.state \in {"cut", "closed"}
      BY <3>1 DEF IsSocket
    <3> QED BY <3>2, <3>3
  <2>2. CASE CloseEvent(n)
    <3>1. PICK x : x = [k EXCEPT !.state = "closed"]
      OBVIOUS
    <3>2. socks' = [socks EXCEPT ![n] = x] /\ k.state = "cut"
      BY <1>3, <2>2, <3>1 DEF CloseEvent
    <3>3. x = [state |-> "closed", wire |-> k.wire] /\ k.wire = << >>
      BY <1>4, <3>1, <3>2 DEF Flow
    <3>4. IsSocket(x) /\ x.wire = << >> /\ x.state \in {"cut", "closed"}
      BY <3>3 DEF IsSocket
    <3>5. k.state # "closed"
      BY <3>2
    <3> QED BY <3>2, <3>4, <3>5
  <2> QED BY <2>1, <2>2
<1>6. Flow(x)'
  BY <1>5, EmptySeq DEF Flow
<1>7. FlowInv' /\ DOMAIN socks' = DOMAIN socks
  BY <1>3, <1>5, <1>6, OneFlows DEF ShellIInv
<1>8. MiscTyped'
  BY <1>1, <1>2, <1>7 DEF ShellIInv, MiscTyped
<1> QED BY <1>2, <1>7, <1>8 DEF ShellIInv

(* A message is taken off the wire of the current socket.                  *)
LEMMA PopFlows ==
  ASSUME ShellIInv, LinkIInv', NEW n \in DOMAIN socks, NEW kind, Arrives(n, kind),
         socks' = Pop(n), UNCHANGED <<recs, events>>, storeSeq' \in Nat, storeSeq <= storeSeq',
         NEW m, m = Head(socks[n].wire), IsRec(m) => m.seq <= storeSeq'
  PROVE  FlowInv' /\ DOMAIN socks' = DOMAIN socks
<1>1. PICK k : k = socks[n]
  OBVIOUS
<1>2. Flow(k) /\ k = [state |-> k.state, wire |-> k.wire] /\ k.state = "open" /\ k.wire # << >>
  BY <1>1 DEF ShellIInv, FlowInv, LinkIInv, IsSocket, Arrives
<1>3. PICK w : w = k.wire
  OBVIOUS
<1>4. w \in Seq(Messages) /\ WireOK(w) /\ w # << >> /\ m = w[1]
  BY <1>1, <1>2, <1>3 DEF Flow
<1>5. PICK v : v = Tail(w)
  OBVIOUS
<1>6. storeSeq \in Nat /\ \A j \in RecKeys : recs[j] \in [seq : Seqs, live : BOOLEAN]
  BY RowsBelowHead DEF ShellIInv, CopyInv, RecsInv
<1>7. v \in Seq(Messages) /\ WireOK(v)'
  BY <1>4, <1>5, <1>6, WireShrinks
<1>8. PICK x : x = [k EXCEPT !.wire = v]
  OBVIOUS
<1>9. x.state = "open" /\ x.wire = v /\ IsSocket(x)
  BY <1>2, <1>8 DEF IsSocket
<1>10. socks' = [socks EXCEPT ![n] = x]
  BY <1>1, <1>3, <1>5, <1>8 DEF Pop
<1>11. Flow(x)'
  BY <1>7, <1>9 DEF Flow
<1> QED BY <1>1, <1>2, <1>9, <1>10, <1>11, OneFlows DEF ShellIInv

(* The message that arrives.                                               *)
LEMMA Arriving ==
  ASSUME ShellIInv, NEW n \in DOMAIN socks, NEW kind, Arrives(n, kind),
         NEW m, m = Head(socks[n].wire)
  PROVE  /\ m.kind = kind /\ MsgOK(m) /\ ws = n
         /\ Cardinality(RecKeys) <= Batch /\ IsRec(m) =>
               \A k \in RecKeys : recs[k].seq > storeSeq /\ recs[k].seq <= m.seq =>
                   k = m.key /\ m.seq = recs[k].seq
<1>1. PICK w : w = socks[n].wire
  OBVIOUS
<1>2. w \in Seq(Messages) /\ WireOK(w) /\ w # << >> /\ m = w[1] /\ m.kind = kind /\ ws = n
  BY <1>1 DEF ShellIInv, FlowInv, Flow, Arrives
<1>3. PICK l \in Nat : l = Len(w) /\ l >= 1
  BY <1>2, EmptySeq, LenProperties
<1>4. MsgOK(m)
  BY <1>2, <1>3 DEF WireOK
<1>5. ASSUME Cardinality(RecKeys) <= Batch, IsRec(m), NEW k \in RecKeys,
             recs[k].seq > storeSeq, recs[k].seq <= m.seq
      PROVE  k = m.key /\ m.seq = recs[k].seq
  <2>1. PICK i \in 1 .. l : w[i] = RecordMsg(k, recs[k])
    BY <1>2, <1>3, <1>5 DEF WireOK, Covered
  <2>2. recs[k] \in [seq : Seqs, live : BOOLEAN] /\ recs[k].seq \in Nat
    BY RowsBelowHead DEF ShellIInv, RecsInv
  <2>3. IsRec(w[i]) /\ w[i].key = k /\ w[i].seq = recs[k].seq
    BY <2>1, <2>2, RecordFields
  <2>4. i # 1 => m.seq < w[i].seq
    BY <1>2, <1>3, <1>5, <2>3 DEF WireOK, Ordered
  <2>5. m.seq \in Nat
    BY <1>4, <1>5, RowsBelowHead DEF MsgOK, ShellIInv
  <2>6. i = 1
    BY <1>5, <2>2, <2>3, <2>4, <2>5
  <2> QED BY <1>2, <2>3, <2>6
<1> QED BY <1>2, <1>4, <1>5

LEMMA ReplayCompleteShell ==
  ASSUME ShellIInv, LinkIInv', NEW n \in DOMAIN socks, ReplayComplete(n)
  PROVE  ShellIInv'
<1>1. /\ Arrives(n, "complete") /\ socks' = Pop(n) /\ replayDone' = TRUE
      /\ seen' = SeenAfterInit(iframeReady, TRUE)
      /\ UNCHANGED <<recs, events, ws, timer, loss, iframeReady, replayBuffer, lastEventId,
                     store, storeSeq, pageStore, pageSeq>>
  BY DEF ReplayComplete, relayVars
<1>2. PICK m : m = Head(socks[n].wire)
  OBVIOUS
<1>3. ~ IsRec(m)
  BY <1>1, <1>2, Arriving DEF IsRec
<1>4. storeSeq \in Nat
  BY RowsBelowHead DEF ShellIInv, CopyInv
<1>5. FlowInv' /\ DOMAIN socks' = DOMAIN socks
  BY <1>1, <1>2, <1>3, <1>4, PopFlows
<1>6. seen' \in Seq(1 .. MaxEvent)
  BY <1>1, ConcatProperties DEF SeenAfterInit, ShellIInv, MiscTyped
<1>7. MiscTyped'
  BY <1>1, <1>5, <1>6 DEF ShellIInv, MiscTyped
<1>8. RecsInv' /\ CopyInv' /\ PageInv'
  BY <1>1 DEF ShellIInv, RecsInv, CopyInv, PageInv, UpToCursor, RecHead
<1> QED BY <1>5, <1>7, <1>8 DEF ShellIInv

LEMMA EventArrivesShell ==
  ASSUME ShellIInv, LinkIInv', NEW n \in DOMAIN socks, EventArrives(n)
  PROVE  ShellIInv'
<1>1. PICK m : m = Head(socks[n].wire)
  OBVIOUS
<1>2. /\ Arrives(n, "event") /\ socks' = Pop(n)
      /\ lastEventId' = SetMax({lastEventId, m.id})
      /\ \/ seen' = Append(seen, m.id) /\ UNCHANGED replayBuffer
         \/ replayBuffer' = Append(replayBuffer, m.id) /\ UNCHANGED seen
         \/ UNCHANGED <<seen, replayBuffer>>
      /\ UNCHANGED <<recs, events, ws, timer, loss, iframeReady, replayDone,
                     store, storeSeq, pageStore, pageSeq>>
  BY <1>1 DEF EventArrives, relayVars
<1>3. MsgOK(m) /\ m.kind = "event"
  BY <1>1, <1>2, Arriving
<1>4. m.id \in 1 .. events /\ ~ IsRec(m)
  BY <1>3 DEF MsgOK, IsRec
<1>5. storeSeq \in Nat
  BY RowsBelowHead DEF ShellIInv, CopyInv
<1>6. FlowInv' /\ DOMAIN socks' = DOMAIN socks
  BY <1>1, <1>2, <1>4, <1>5, PopFlows
<1>7. PICK i : i = m.id
  OBVIOUS
<1>8. /\ events \in Nat /\ events <= MaxEvent /\ MaxEvent \in Nat /\ lastEventId \in 0 .. events
      /\ i \in 1 .. events /\ i \in 1 .. MaxEvent
  BY <1>4, <1>7, ShellAssumption DEF ShellIInv, MiscTyped
<1>9. lastEventId' \in 0 .. events
  <2>1. \E x \in {lastEventId, i} : \A y \in {lastEventId, i} : y <= x
    BY <1>8
  <2>2. lastEventId' \in {lastEventId, i}
    BY <1>2, <1>7, <2>1 DEF SetMax
  <2> QED BY <1>8, <2>2
<1>10. seen' \in Seq(1 .. MaxEvent) /\ replayBuffer' \in Seq(1 .. MaxEvent)
  <2>1. seen \in Seq(1 .. MaxEvent) /\ replayBuffer \in Seq(1 .. MaxEvent)
    BY DEF ShellIInv, MiscTyped
  <2>2. /\ Append(seen, i) \in Seq(1 .. MaxEvent)
        /\ Append(replayBuffer, i) \in Seq(1 .. MaxEvent)
    BY <1>8, <2>1, AppendProperties
  <2>3. \/ seen' = Append(seen, i) /\ replayBuffer' = replayBuffer
        \/ replayBuffer' = Append(replayBuffer, i) /\ seen' = seen
        \/ seen' = seen /\ replayBuffer' = replayBuffer
    BY <1>2, <1>7
  <2> QED BY <2>1, <2>2, <2>3
<1>11. MiscTyped'
  BY <1>2, <1>6, <1>9, <1>10 DEF ShellIInv, MiscTyped
<1>12. RecsInv' /\ CopyInv' /\ PageInv'
  BY <1>2 DEF ShellIInv, RecsInv, CopyInv, PageInv, UpToCursor, RecHead
<1> QED BY <1>6, <1>11, <1>12 DEF ShellIInv

LEMMA RecordArrivesShell ==
  ASSUME ShellIInv, LinkIInv', NEW n \in DOMAIN socks, RecordArrives(n)
  PROVE  ShellIInv'
<1>1. PICK m : m = Head(socks[n].wire)
  OBVIOUS
<1>2. PICK kind \in {"upsert", "delete"} : Arrives(n, kind)
  BY DEF RecordArrives
<1>3. /\ m.kind = kind /\ MsgOK(m) /\ IsRec(m)
      /\ Cardinality(RecKeys) <= Batch =>
            \A k \in RecKeys : recs[k].seq > storeSeq /\ recs[k].seq <= m.seq =>
                k = m.key /\ m.seq = recs[k].seq
  BY <1>1, <1>2, Arriving DEF IsRec
<1>4. PICK key : key = m.key
  OBVIOUS
<1>5. PICK s : s = m.seq
  OBVIOUS
<1>6. /\ key \in RecKeys /\ s \in 1 .. recs[key].seq
      /\ s = recs[key].seq => kind = IF recs[key].live THEN "upsert" ELSE "delete"
  BY <1>3, <1>4, <1>5 DEF MsgOK
<1>7. /\ s \in Nat /\ s \in 1 .. MaxSeq /\ storeSeq \in Nat /\ s <= RecHead /\ RecHead \in Nat
      /\ s <= recs[key].seq /\ \A k \in RecKeys : recs[k].seq \in Nat
  <2>1. /\ RecHead \in Seqs /\ RecHead \in Nat /\ storeSeq \in 0 .. RecHead
        /\ \A k \in RecKeys : recs[k].seq \in Nat /\ recs[k].seq <= RecHead
    BY RowsBelowHead DEF ShellIInv, CopyInv
  <2> QED BY <1>6, <2>1, ShellAssumption DEF Seqs
<1>8. PICK a : a = IngestRecord(store, storeSeq, kind, key, s)
  OBVIOUS
<1>9. PICK b : b = IF iframeReady /\ s > storeSeq
                   THEN IngestRecord(pageStore, pageSeq, kind, key, s)
                   ELSE <<pageStore, pageSeq>>
  OBVIOUS
<1>10. /\ store' = a[1] /\ storeSeq' = a[2] /\ pageStore' = b[1] /\ pageSeq' = b[2]
       /\ socks' = Pop(n)
       /\ UNCHANGED <<recs, events, ws, timer, loss, iframeReady, replayDone, replayBuffer,
                      lastEventId, seen>>
  BY <1>1, <1>2, <1>3, <1>4, <1>5, <1>8, <1>9, OneRule DEF RecordArrives, relayVars
<1>11. /\ MapOK(a[1])
       /\ s <= storeSeq => a[1] = store /\ a[2] = storeSeq
       /\ s > storeSeq => /\ a[2] = s
                          /\ \A e : e \in MapRows(a[1]) <=>
                                \/ kind = "upsert" /\ e = Entry(key, s)
                                \/ e \in MapRows(store) /\ e.key # key
  BY <1>6, <1>7, <1>8, IngestedRows DEF ShellIInv, CopyInv
<1>12. MiscTyped' <=> DOMAIN socks' \subseteq 1 .. MaxSock /\ ws \in {0} \cup DOMAIN socks'
  BY <1>10 DEF ShellIInv, MiscTyped
<1>13. RecsInv'
  BY <1>10 DEF ShellIInv, RecsInv
<1>14. storeSeq' \in Nat /\ storeSeq <= storeSeq' /\ s <= storeSeq' /\ storeSeq' \in 0 .. RecHead
       /\ RecHead' = RecHead
  <2>1. storeSeq \in 0 .. RecHead /\ RecHead' = RecHead
    BY <1>10 DEF ShellIInv, CopyInv, RecHead
  <2> QED BY <1>7, <1>10, <1>11, <2>1
<1>15. FlowInv' /\ DOMAIN socks' = DOMAIN socks
  BY <1>1, <1>2, <1>5, <1>10, <1>14, PopFlows
<1>16. CASE s <= storeSeq
  <2>1. b = <<pageStore, pageSeq>>
    BY <1>7, <1>9, <1>16
  <2>2. UNCHANGED <<store, storeSeq, pageStore, pageSeq>>
    BY <1>10, <1>11, <1>16, <2>1
  <2>3. CopyInv' /\ PageInv'
    BY <1>10, <1>14, <2>2 DEF ShellIInv, CopyInv, PageInv, UpToCursor
  <2> QED BY <1>12, <1>13, <1>15, <2>3 DEF ShellIInv, MiscTyped
<1>17. CASE s > storeSeq
  <2>1. storeSeq' = s /\ \A e : e \in MapRows(store') <=>
                                   \/ kind = "upsert" /\ e = Entry(key, s)
                                   \/ e \in MapRows(store) /\ e.key # key
    BY <1>10, <1>11, <1>17
  <2>2. Entry(key, s).key = key /\ Entry(key, s).seq = s
    BY DEF Entry
  <2>3. \A e \in MapRows(store') : e.seq <= storeSeq'
    <3> SUFFICES ASSUME NEW e \in MapRows(store') PROVE e.seq <= s
      BY <2>1
    <3>1. CASE e \in MapRows(store)
      <4>1. e.seq <= storeSeq /\ e.seq \in Nat
        <5>1. \E i \in 1 .. Len(store) : e = store[i]
          BY <3>1 DEF MapRows
        <5>2. e \in MapRow
          BY <5>1, ElementOfSeq DEF ShellIInv, CopyInv, MapOK
        <5> QED BY <3>1, <5>2, ShellAssumption DEF ShellIInv, CopyInv, MapRow
      <4> QED BY <1>7, <1>17, <4>1
    <3>2. CASE e = Entry(key, s)
      BY <1>7, <2>2, <3>2
    <3> QED BY <2>1, <3>1, <3>2
  <2>4. ASSUME Cardinality(RecKeys) <= Batch PROVE UpToCursor'
    <3> SUFFICES ASSUME NEW k \in RecKeys, recs[k].seq <= s
                 PROVE  /\ \A e \in MapRows(store') : e.key = k =>
                              recs[k].live = TRUE /\ e = Entry(k, recs[k].seq)
                        /\ recs[k].live = TRUE => Entry(k, recs[k].seq) \in MapRows(store')
      BY <1>10, <2>1 DEF UpToCursor
    <3>1. recs[k].live \in BOOLEAN
      BY DEF ShellIInv, RecsInv
    <3>2. CASE k = key
      <4>1. s = recs[k].seq
        BY <1>6, <1>7, <3>2
      <4>2. kind = "upsert" <=> recs[k].live = TRUE
        BY <1>6, <3>1, <3>2, <4>1
      <4> QED BY <2>1, <3>2, <4>1, <4>2
    <3>3. CASE k # key
      <4>1. recs[k].seq <= storeSeq
        BY <1>3, <1>4, <1>5, <1>7, <2>4, <3>3
      <4>2. /\ \A e \in MapRows(store) :
                  e.key = k => recs[k].live = TRUE /\ e = Entry(k, recs[k].seq)
            /\ recs[k].live = TRUE => Entry(k, recs[k].seq) \in MapRows(store)
        BY <2>4, <4>1 DEF ShellIInv, CopyInv, UpToCursor
      <4>3. Entry(k, recs[k].seq).key = k
        BY DEF Entry
      <4> QED BY <2>1, <2>2, <3>3, <4>2, <4>3
    <3> QED BY <3>2, <3>3
  <2>5. CopyInv'
    BY <1>10, <1>11, <1>14, <2>3, <2>4 DEF CopyInv
  <2>6. pageSeq \in Nat /\ pageSeq <= storeSeq /\ MapOK(pageStore)
    BY <1>7 DEF ShellIInv, PageInv
  <2>7. CASE iframeReady
    <3>1. b = IngestRecord(pageStore, pageSeq, kind, key, s) /\ s > pageSeq
      BY <1>7, <1>9, <1>17, <2>6, <2>7
    <3>2. MapOK(b[1]) /\ b[2] = s
          /\ \A e : e \in MapRows(b[1]) <=> \/ kind = "upsert" /\ e = Entry(key, s)
                                            \/ e \in MapRows(pageStore) /\ e.key # key
      <4>1. /\ MapOK(pageStore) /\ pageSeq \in Nat /\ key \in RecKeys /\ s \in 1 .. MaxSeq
            /\ s > pageSeq /\ b = IngestRecord(pageStore, pageSeq, kind, key, s)
        BY <1>6, <1>7, <2>6, <3>1
      <4>2. PICK p : p = pageStore
        OBVIOUS
      <4>3. PICK l : l = pageSeq
        OBVIOUS
      <4>4. /\ MapOK(p) /\ l \in Nat /\ key \in RecKeys /\ s \in 1 .. MaxSeq
            /\ s > l /\ b = IngestRecord(p, l, kind, key, s)
        BY <4>1, <4>2, <4>3
      <4>5. MapOK(b[1]) /\ b[2] = s
            /\ \A e : e \in MapRows(b[1]) <=> \/ kind = "upsert" /\ e = Entry(key, s)
                                              \/ e \in MapRows(p) /\ e.key # key
        BY <4>4, IngestedRows
      <4> QED BY <4>2, <4>5
    <3>3. MapRows(pageStore') \subseteq MapRows(store')
      <4>1. MapRows(pageStore) \subseteq MapRows(store)
        BY DEF ShellIInv, PageInv
      <4> QED BY <1>10, <2>1, <3>2, <4>1
    <3>4. pageSeq' \in 0 .. storeSeq'
      BY <1>7, <1>10, <2>1, <3>2
    <3>5. PageInv'
      BY <1>10, <2>7, <3>2, <3>3, <3>4 DEF PageInv
    <3> QED BY <1>12, <1>13, <1>15, <2>5, <3>5 DEF ShellIInv, MiscTyped
  <2>8. CASE ~ iframeReady
    <3>1. UNCHANGED <<pageStore, pageSeq>> /\ pageStore = << >> /\ pageSeq = 0
      <4>1. iframeReady = FALSE
        BY <2>8 DEF ShellIInv, MiscTyped
      <4> QED BY <1>9, <1>10, <2>8, <4>1 DEF ShellIInv, PageInv
    <3>2. MapRows(<< >>) = {}
      BY EmptySeq DEF MapRows
    <3>3. PageInv'
      BY <1>14, <2>6, <3>1, <3>2 DEF PageInv
    <3> QED BY <1>12, <1>13, <1>15, <2>5, <3>3 DEF ShellIInv, MiscTyped
  <2> QED BY <2>7, <2>8
<1> QED BY <1>7, <1>16, <1>17

LEMMA IframeReadyShell ==
  ASSUME ShellIInv, LinkIInv', IframeReady
  PROVE  ShellIInv'
<1>1. PICK a : a = IngestSnapshot(store)
  OBVIOUS
<1>2. /\ iframeReady' = TRUE /\ seen' = SeenAfterInit(TRUE, replayDone)
      /\ pageStore' = a[1] /\ pageSeq' = a[2]
      /\ UNCHANGED <<recs, events, socks, ws, timer, loss, replayDone, replayBuffer,
                     lastEventId, store, storeSeq>>
  BY <1>1 DEF IframeReady, relayVars, linkVars, feedVars
<1>3. iframeReady = FALSE
  BY DEF IframeReady, ShellIInv, MiscTyped
<1>4. Caught(store, a)
  BY <1>1, <1>3, SnapshotCaught DEF ShellIInv, PageInv, CopyInv
<1>5. storeSeq \in Nat /\ \A e \in MapRows(store) : e.seq <= storeSeq
  BY RowsBelowHead DEF ShellIInv, CopyInv
<1>6. pageSeq' \in 0 .. storeSeq
  <2>1. a[2] \in Nat /\ a[2] <= storeSeq
    BY <1>4, <1>5 DEF Caught
  <2> QED BY <1>2, <1>5, <2>1
<1>7. PageInv'
  BY <1>2, <1>4, <1>6 DEF PageInv, Caught
<1>8. seen' \in Seq(1 .. MaxEvent)
  BY <1>2, ConcatProperties DEF SeenAfterInit, ShellIInv, MiscTyped
<1>9. MiscTyped'
  BY <1>2, <1>8 DEF ShellIInv, MiscTyped
<1>10. RecsInv' /\ CopyInv'
  BY <1>2 DEF ShellIInv, RecsInv, CopyInv, UpToCursor, RecHead
<1>11. FlowInv'
  <2> SUFFICES ASSUME NEW x \in {socks[n] : n \in DOMAIN socks} PROVE Flow(x)'
    BY <1>2 DEF FlowInv
  <2>1. Flow(x)
    BY DEF ShellIInv, FlowInv
  <2> QED BY <1>2, <2>1, SameFlow
<1> QED BY <1>7, <1>9, <1>10, <1>11 DEF ShellIInv

LEMMA ShellIStep == ShellIInv /\ [ShellNext]_shellVars => ShellIInv'
<1> SUFFICES ASSUME ShellIInv, [ShellNext]_shellVars
             PROVE  ShellIInv'
  OBVIOUS
<1>1. LinkIInv'
  BY LinkStepIInv DEF ShellIInv
<1>2. CASE UNCHANGED shellVars
  <2>1. UNCHANGED <<recs, events, socks, ws, timer, loss, iframeReady, replayDone, replayBuffer,
                    lastEventId, store, storeSeq, seen, pageStore, pageSeq>>
    BY <1>2 DEF shellVars, relayVars, linkVars, feedVars, pageVars
  <2>2. FlowInv'
    <3> SUFFICES ASSUME NEW x \in {socks[n] : n \in DOMAIN socks} PROVE Flow(x)'
      BY <2>1 DEF FlowInv
    <3>1. Flow(x)
      BY DEF ShellIInv, FlowInv
    <3> QED BY <2>1, <3>1, SameFlow
  <2>3. RecsInv' /\ CopyInv' /\ PageInv' /\ MiscTyped'
    BY <2>1 DEF ShellIInv, RecsInv, CopyInv, PageInv, MiscTyped, UpToCursor, RecHead
  <2> QED BY <1>1, <2>2, <2>3 DEF ShellIInv
<1>3. CASE AppendEvent
  BY <1>1, <1>3, AppendEventShell
<1>4. ASSUME NEW k \in RecKeys, WriteRecord(k) PROVE ShellIInv'
  BY <1>1, <1>4, WriteRecordShell
<1>5. CASE Fire \/ MintFails
  BY <1>1, <1>5, TimerShell
<1>6. CASE MintAnswers
  BY <1>1, <1>6, MintAnswersShell
<1>7. CASE IframeReady
  BY <1>1, <1>7, IframeReadyShell
<1>8. ASSUME NEW n \in DOMAIN socks, Opens(n) PROVE ShellIInv'
  BY <1>1, <1>8, OpensShell
<1>9. ASSUME NEW n \in DOMAIN socks, Breaks(n) \/ CloseEvent(n) PROVE ShellIInv'
  BY <1>1, <1>9, EndsShell
<1>10. ASSUME NEW n \in DOMAIN socks, ReplayComplete(n) PROVE ShellIInv'
  BY <1>1, <1>10, ReplayCompleteShell
<1>11. ASSUME NEW n \in DOMAIN socks, EventArrives(n) PROVE ShellIInv'
  BY <1>1, <1>11, EventArrivesShell
<1>12. ASSUME NEW n \in DOMAIN socks, RecordArrives(n) PROVE ShellIInv'
  BY <1>1, <1>12, RecordArrivesShell
<1> QED BY <1>2, <1>3, <1>4, <1>5, <1>6, <1>7, <1>8, <1>9, <1>10, <1>11, <1>12 DEF ShellNext

LEMMA ShellIInit == ShellInit => ShellIInv
<1> SUFFICES ASSUME ShellInit
             PROVE  ShellIInv
  OBVIOUS
<1> USE ShellAssumption DEF ShellInit
<1>1. LinkIInv
  BY LinkInit
<1>2. RecsInv
  <2>1. recs \in [RecKeys -> [seq : Seqs, live : BOOLEAN]]
        /\ \A k \in RecKeys : recs[k].seq = 0 /\ recs[k].live = FALSE
    BY DEF Seqs
  <2> QED BY <2>1 DEF RecsInv
<1>3. << >> \in Seq(1 .. MaxEvent) /\ DOMAIN socks = {}
      /\ MapOK(<< >>) /\ MapRows(<< >>) = {}
  <2>1. \A S : << >> \in Seq(S)
    BY EmptySeq
  <2>2. DOMAIN << >> = {} /\ Len(<< >>) = 0
    OBVIOUS
  <2> QED BY <2>1, <2>2 DEF MapOK, Distinct, MapRows
<1>4. MiscTyped
  <2>1. 0 \in 0 .. MaxEvent /\ 0 \in 0 .. MaxLoss /\ 0 \in 0 .. 0
    OBVIOUS
  <2>2. events = 0 /\ lastEventId = 0 /\ loss = 0 /\ ws = 0
        /\ replayBuffer = << >> /\ seen = << >> /\ socks = << >>
        /\ timer = FALSE /\ iframeReady = FALSE /\ replayDone = FALSE
    OBVIOUS
  <2>3. DOMAIN socks \subseteq 1 .. MaxSock
    BY <1>3
  <2> HIDE DEF ShellInit
  <2> QED BY <1>3, <2>1, <2>2, <2>3 DEF MiscTyped
<1>5. RecHead \in Nat
  BY <1>2, RowsBelowHead
<1>6. UpToCursor
  <2>1. \A k \in RecKeys : recs[k].live # TRUE
    OBVIOUS
  <2> QED BY <1>3, <2>1 DEF UpToCursor
<1>7. CopyInv /\ PageInv
  BY <1>3, <1>5, <1>6 DEF CopyInv, PageInv
<1>8. FlowInv
  BY <1>3 DEF FlowInv
<1> QED BY <1>1, <1>2, <1>4, <1>7, <1>8 DEF ShellIInv

LEMMA ShellIHolds ==
  ShellIInv => /\ ShellTypeOK /\ OneLiveSocket /\ PageShowsNoStale
               /\ Cardinality(RecKeys) <= Batch => StoreMatchesHead
<1> SUFFICES ASSUME ShellIInv
             PROVE  /\ ShellTypeOK /\ OneLiveSocket /\ PageShowsNoStale
                    /\ Cardinality(RecKeys) <= Batch => StoreMatchesHead
  OBVIOUS
<1>1. OneLiveSocket /\ PageShowsNoStale
  BY LinkSuffices DEF ShellIInv, PageInv, PageShowsNoStale
<1>2. ShellTypeOK
  <2>1. \A n \in DOMAIN socks : /\ socks[n].state \in {"connecting", "open", "cut", "closed"}
                                /\ socks[n].wire \in Seq(Messages)
                                /\ socks[n].state # "open" => socks[n].wire = << >>
    BY DEF ShellIInv, FlowInv, Flow
  <2>2. connecting \in BOOLEAN /\ minting \in BOOLEAN
    BY DEF ShellIInv, LinkIInv
  <2> QED BY <2>1, <2>2 DEF ShellTypeOK, ShellIInv, RecsInv, MiscTyped, CopyInv, PageInv, MapOK,
             MapRow
<1>3. ASSUME Cardinality(RecKeys) <= Batch, storeSeq = RecHead
      PROVE  MapRows(store) = {Entry(k, recs[k].seq) : k \in {j \in RecKeys : recs[j].live}}
  <2>1. UpToCursor /\ \A k \in RecKeys : recs[k].seq <= storeSeq /\ recs[k].live \in BOOLEAN
    BY <1>3, RowsBelowHead DEF ShellIInv, CopyInv, RecsInv
  <2>2. \A e \in MapRows(store) : e.key \in RecKeys
    <3> SUFFICES ASSUME NEW e \in MapRows(store) PROVE e.key \in RecKeys
      OBVIOUS
    <3>1. PICK i \in 1 .. Len(store) : e = store[i]
      BY DEF MapRows
    <3>2. e \in MapRow
      BY <3>1, ElementOfSeq DEF ShellIInv, CopyInv, MapOK
    <3> QED BY <3>2 DEF MapRow
  <2>3. \A e \in MapRows(store) : recs[e.key].live = TRUE /\ e = Entry(e.key, recs[e.key].seq)
    BY <2>1, <2>2 DEF UpToCursor
  <2>4. \A k \in RecKeys : recs[k].live => Entry(k, recs[k].seq) \in MapRows(store)
    BY <2>1 DEF UpToCursor
  <2> QED BY <2>2, <2>3, <2>4
<1> QED BY <1>1, <1>2, <1>3 DEF StoreMatchesHead

(* One connection, and a page that shows nothing the shell has dropped.    *)
THEOREM PageFollowsShell ==
    ShellSpec => [](ShellTypeOK /\ OneLiveSocket /\ PageShowsNoStale)
BY ShellIInit, ShellIStep, ShellIHolds, PTL DEF ShellSpec

(* Where the rows fit a replay batch, a shell that has read to the head of *)
(* the collection has its live rows and nothing else, over any number of   *)
(* reconnects.                                                             *)
THEOREM ShellSound == Cardinality(RecKeys) <= Batch /\ ShellSpec => []ShellInv
<1>1. ASSUME Cardinality(RecKeys) <= Batch PROVE ShellSpec => []ShellInv
  <2>1. ShellIInv => ShellInv
    BY <1>1, ShellIHolds DEF ShellInv
  <2> QED BY ShellIInit, ShellIStep, <2>1, PTL DEF ShellSpec
<1> QED BY <1>1

-----------------------------------------------------------------------------
(* What is true of each promise on its own: where its request is tells     *)
(* whether it was carried out, and an answer is of the place it came from. *)
RefusalCodes == {"invalid_args", "invalid_request", "disconnected", "refused"}
PromiseSound(p) ==
    /\ p.state \in {"idle", "pending"} <=> p.code = "none"
    /\ p.state = "resolved" => p.done
    /\ p.state = "idle" => p.at = "page"
    /\ p.at \in {"page", "posted", "wire", "fetch", "declined"} => ~p.done
    /\ p.at = "did" => p.done
    /\ p.code \in RefusalCodes => p.at = "over" /\ ~p.done

CallsIInv ==
    /\ call \in [Calls -> PromiseRow]
    /\ wsOpen \in BOOLEAN /\ flaps \in 0 .. MaxFlap
    /\ \A c \in Calls : PromiseSound(call[c])

(* One promise changes, and only before it is settled.                     *)
LEMMA PromiseStep ==
  ASSUME CallsIInv, NEW c \in Calls, NEW q \in PromiseRow, PromiseSound(q),
         call' = [call EXCEPT ![c] = q], UNCHANGED <<wsOpen, flaps>>
  PROVE  CallsIInv'
<1>1. call' \in [Calls -> PromiseRow]
  BY DEF CallsIInv
<1>2. \A d \in Calls : call'[d] = IF d = c THEN q ELSE call[d]
  BY DEF CallsIInv
<1>3. \A d \in Calls : PromiseSound(call'[d])
  BY <1>2 DEF CallsIInv
<1> QED BY <1>1, <1>3 DEF CallsIInv

(* What an answer makes of a promise is sound if the answer is.            *)
LEMMA AnswerStep ==
  ASSUME CallsIInv, NEW c \in Calls, call[c].at \in {"posted", "fetch", "did", "declined"},
         NEW code \in Codes, code # "none",
         code = "ok" => call[c].done,
         code \in RefusalCodes => ~call[c].done,
         call' = Answer(c, code, call[c].done), UNCHANGED <<wsOpen, flaps>>
  PROVE  CallsIInv'
<1>1. PICK p \in PromiseRow : p = call[c] /\ PromiseSound(p)
  BY DEF CallsIInv
<1>2. CASE p.state = "pending"
  <2>1. PICK s \in {"resolved", "rejected"} : s = IF code = "ok" THEN "resolved" ELSE "rejected"
    OBVIOUS
  <2>2. call' = [call EXCEPT ![c] = [p EXCEPT !.at = "over", !.done = p.done, !.state = s,
                                             !.code = code]]
    BY <1>1, <1>2, <2>1 DEF Answer, Settled
  <2>3. PICK q : q = [p EXCEPT !.at = "over", !.done = p.done, !.state = s, !.code = code]
    OBVIOUS
  <2>4. q \in PromiseRow /\ q.at = "over" /\ q.done = p.done /\ q.state = s /\ q.code = code
    BY <2>3 DEF PromiseRow, Places
  <2>5. PromiseSound(q)
    BY <1>1, <2>1, <2>4 DEF PromiseSound, RefusalCodes
  <2> QED BY <2>2, <2>3, <2>4, <2>5, PromiseStep
<1>3. CASE p.state # "pending"
  <2>1. call' = [call EXCEPT ![c] = [p EXCEPT !.at = "over", !.done = p.done]]
    BY <1>1, <1>3 DEF Answer, Settled
  <2>2. PICK q : q = [p EXCEPT !.at = "over", !.done = p.done]
    OBVIOUS
  <2>3. q \in PromiseRow /\ q.at = "over" /\ q.done = p.done /\ q.state = p.state
        /\ q.code = p.code
    BY <2>2 DEF PromiseRow, Places
  <2>4. p.state # "idle" /\ (p.code \in RefusalCodes => ~p.done)
    BY <1>1 DEF PromiseSound
  <2>5. PromiseSound(q)
    BY <1>1, <2>3, <2>4 DEF PromiseSound
  <2> QED BY <2>1, <2>2, <2>3, <2>5, PromiseStep
<1> QED BY <1>2, <1>3

LEMMA CallsInitIInv == PageCallsAssumption /\ CallsInit => CallsIInv
<1> SUFFICES ASSUME PageCallsAssumption, CallsInit
             PROVE  CallsIInv
  OBVIOUS
<1>1. \A c \in Calls : /\ call[c] \in PromiseRow /\ call[c].state = "idle" /\ call[c].at = "page"
                       /\ call[c].code = "none" /\ ~call[c].done
  BY DEF CallsInit, PromiseRow, Codes, Places
<1>2. call \in [Calls -> PromiseRow]
  BY <1>1 DEF CallsInit
<1>3. \A c \in Calls : PromiseSound(call[c])
  BY <1>1 DEF PromiseSound, RefusalCodes
<1> QED BY <1>2, <1>3 DEF CallsInit, CallsIInv, PageCallsAssumption

(* The page asks, and its timers fire.                                     *)
LEMMA PageStep ==
  ASSUME CallsIInv, NEW c \in Calls,
         AskEmit(c) \/ AskUpload(c) \/ AskBlob(c) \/ AskMutate(c) \/ TimeOut(c)
  PROVE  CallsIInv'
<1>1. PICK p \in PromiseRow : p = call[c] /\ PromiseSound(p)
  BY DEF CallsIInv
<1>2. \/ /\ p.state = "idle"
         /\ call' = [call EXCEPT ![c] = [p EXCEPT !.state = "rejected", !.code = "invalid_args",
                                                  !.at = "over"]]
      \/ /\ p.state = "idle"
         /\ call' = [call EXCEPT ![c] = [p EXCEPT !.state = "pending", !.at = "posted"]]
      \/ /\ p.state = "pending"
         /\ call' = [call EXCEPT ![c] = [p EXCEPT !.state = "rejected", !.code = "timeout"]]
  <2>1. CASE TimeOut(c)
    BY <1>1, <2>1 DEF TimeOut, CallsIInv
  <2>2. CASE AskEmit(c) \/ AskUpload(c) \/ AskBlob(c) \/ AskMutate(c)
    BY <1>1, <2>2 DEF AskEmit, AskUpload, AskBlob, AskMutate, Ask, CallsIInv
  <2> QED BY <2>1, <2>2
<1>3. UNCHANGED <<wsOpen, flaps>>
  BY DEF AskEmit, AskUpload, AskBlob, AskMutate, Ask, TimeOut
<1>4. ASSUME p.state = "idle",
             call' = [call EXCEPT ![c] = [p EXCEPT !.state = "rejected", !.code = "invalid_args",
                                                   !.at = "over"]]
      PROVE  CallsIInv'
  <2>1. PICK q : q = [p EXCEPT !.state = "rejected", !.code = "invalid_args", !.at = "over"]
    OBVIOUS
  <2>2. q \in PromiseRow /\ q.state = "rejected" /\ q.code = "invalid_args" /\ q.at = "over"
        /\ q.done = p.done
    BY <2>1 DEF PromiseRow, Places, Codes
  <2>3. PromiseSound(q)
    BY <1>1, <1>4, <2>2 DEF PromiseSound
  <2> QED BY <1>3, <1>4, <2>1, <2>2, <2>3, PromiseStep
<1>5. ASSUME p.state = "idle",
             call' = [call EXCEPT ![c] = [p EXCEPT !.state = "pending", !.at = "posted"]]
      PROVE  CallsIInv'
  <2>1. PICK q : q = [p EXCEPT !.state = "pending", !.at = "posted"]
    OBVIOUS
  <2>2. q \in PromiseRow /\ q.state = "pending" /\ q.code = p.code /\ q.at = "posted"
        /\ q.done = p.done
    BY <2>1 DEF PromiseRow, Places
  <2>3. PromiseSound(q)
    BY <1>1, <1>5, <2>2 DEF PromiseSound, RefusalCodes
  <2> QED BY <1>3, <1>5, <2>1, <2>2, <2>3, PromiseStep
<1>6. ASSUME p.state = "pending",
             call' = [call EXCEPT ![c] = [p EXCEPT !.state = "rejected", !.code = "timeout"]]
      PROVE  CallsIInv'
  <2>1. PICK q : q = [p EXCEPT !.state = "rejected", !.code = "timeout"]
    OBVIOUS
  <2>2. q \in PromiseRow /\ q.state = "rejected" /\ q.code = "timeout" /\ q.at = p.at
        /\ q.done = p.done
    BY <2>1 DEF PromiseRow, Codes
  <2>3. PromiseSound(q)
    BY <1>1, <1>6, <2>2 DEF PromiseSound, RefusalCodes
  <2> QED BY <1>3, <1>6, <2>1, <2>2, <2>3, PromiseStep
<1> QED BY <1>2, <1>4, <1>5, <1>6

(* A request moves on, unanswered.                                         *)
LEMMA MoveStep ==
  ASSUME CallsIInv, NEW c \in Calls,
         NEW at \in {"wire", "fetch", "did", "declined"},
         call[c].at \in {"posted", "wire", "fetch"},
         call' = [call EXCEPT ![c] = [call[c] EXCEPT !.at = at, !.done = (at = "did")]],
         UNCHANGED <<wsOpen, flaps>>
  PROVE  CallsIInv'
<1>1. PICK p \in PromiseRow : p = call[c] /\ PromiseSound(p)
  BY DEF CallsIInv
<1>2. PICK q : q = [p EXCEPT !.at = at, !.done = (at = "did")]
  OBVIOUS
<1>3. q \in PromiseRow /\ q.state = p.state /\ q.code = p.code /\ q.at = at
      /\ (q.done <=> at = "did")
  BY <1>2 DEF PromiseRow, Places
<1>4. ~p.done /\ p.at # "over"
  BY <1>1 DEF PromiseSound
<1>5. PromiseSound(q)
  BY <1>1, <1>3, <1>4 DEF PromiseSound
<1> QED BY <1>1, <1>2, <1>3, <1>5, PromiseStep

(* The shell refuses, forwards, and hands results back.                    *)
LEMMA ShellStep ==
  ASSUME CallsIInv, NEW c \in Calls,
         Refuse(c) \/ ForwardEmit(c) \/ StartFetch(c) \/ Perform(c) \/ EndFetch(c) \/ AckArrives(c)
  PROVE  CallsIInv'
<1>1. PICK p \in PromiseRow : p = call[c] /\ PromiseSound(p)
  BY DEF CallsIInv
<1>2. /\ p.at \in {"posted", "wire", "fetch", "declined"} => ~p.done
      /\ p.at = "did" => p.done
      /\ p.done \in BOOLEAN /\ p.kind \in Kinds
  BY <1>1 DEF PromiseSound, PromiseRow
<1>3. call \in [Calls -> PromiseRow]
  BY DEF CallsIInv
<1>4. ASSUME p.at \in {"posted", "wire", "fetch"},
             NEW at \in {"wire", "fetch", "declined"},
             call' = [call EXCEPT ![c].at = at], UNCHANGED <<wsOpen, flaps>>
      PROVE  CallsIInv'
  <2>1. [p EXCEPT !.at = at, !.done = (at = "did")] = [p EXCEPT !.at = at]
    BY <1>2, <1>4 DEF PromiseRow
  <2>2. call' = [call EXCEPT ![c] = [call[c] EXCEPT !.at = at, !.done = (at = "did")]]
    BY <1>1, <1>4, <2>1
  <2> QED BY <1>1, <1>4, <2>2, MoveStep
<1>5. CASE Refuse(c)
  BY <1>1, <1>2, <1>5, AnswerStep DEF Refuse, Codes, RefusalCodes
<1>6. CASE ForwardEmit(c)
  <2>1. CASE wsOpen
    BY <1>1, <1>4, <1>6, <2>1 DEF ForwardEmit
  <2>2. CASE ~wsOpen
    BY <1>1, <1>2, <1>6, <2>2, AnswerStep DEF ForwardEmit, Codes, RefusalCodes
  <2> QED BY <2>1, <2>2
<1>7. CASE StartFetch(c)
  BY <1>1, <1>4, <1>7 DEF StartFetch
<1>8. CASE Perform(c)
  <2>1. CASE call' = [call EXCEPT ![c] = [@ EXCEPT !.at = "did", !.done = TRUE]]
    <3>1. call' = [call EXCEPT ![c] = [call[c] EXCEPT !.at = "did", !.done = ("did" = "did")]]
      BY <2>1
    <3> QED BY <1>8, <3>1, MoveStep DEF Perform
  <2>2. CASE call' = [call EXCEPT ![c].at = "declined"]
    BY <1>1, <1>4, <1>8, <2>2 DEF Perform
  <2> QED BY <1>8, <2>1, <2>2 DEF Perform
<1>9. CASE EndFetch(c)
  <2>1. PICK end \in {"network"} \cup (IF p.at = "did" THEN {"ok", "garbled"} ELSE {})
                              \cup (IF p.at = "declined" THEN {"error"} ELSE {}) :
           call' = Answer(c, FetchCode(p.kind, end), p.done)
    BY <1>1, <1>9 DEF EndFetch
  <2>2. PICK code : code = FetchCode(p.kind, end)
    OBVIOUS
  <2>3. p.kind \in {"upload", "download", "save", "mutate"} /\ p.at \in {"fetch", "did", "declined"}
    BY <1>1, <1>2, <1>9 DEF EndFetch, Kinds
  <2>4. CASE end = "network"
    <3>1. code \in {"network_error", "fetch_error"}
      BY <2>2, <2>3, <2>4 DEF FetchCode, UploadCode, DownloadCode, SaveCode, MutateCode
    <3> QED BY <1>1, <1>9, <2>1, <2>2, <2>3, <3>1, AnswerStep DEF EndFetch, Codes, RefusalCodes
  <2>5. CASE end \in {"ok", "garbled"} /\ p.at = "did"
    <3>1. code \in {"ok", "failed", "fetch_error"}
      BY <2>2, <2>3, <2>5 DEF FetchCode, UploadCode, DownloadCode, SaveCode, MutateCode
    <3> QED BY <1>1, <1>2, <1>9, <2>1, <2>2, <2>5, <3>1, AnswerStep
            DEF EndFetch, Codes, RefusalCodes
  <2>6. CASE end = "error" /\ p.at = "declined"
    <3>1. code = "refused"
      BY <2>2, <2>3, <2>6 DEF FetchCode, UploadCode, DownloadCode, SaveCode, MutateCode
    <3> QED BY <1>1, <1>2, <1>9, <2>1, <2>2, <2>6, <3>1, AnswerStep
            DEF EndFetch, Codes, RefusalCodes
  <2> QED BY <2>1, <2>4, <2>5, <2>6
<1>10. CASE AckArrives(c)
  <2>1. CASE p.at = "did"
    BY <1>1, <1>2, <1>10, <2>1, AnswerStep DEF AckArrives, Codes, RefusalCodes
  <2>2. CASE p.at = "declined"
    BY <1>1, <1>2, <1>10, <2>2, AnswerStep DEF AckArrives, Codes, RefusalCodes
  <2> QED BY <1>1, <1>10, <2>1, <2>2 DEF AckArrives
<1> QED BY <1>5, <1>6, <1>7, <1>8, <1>9, <1>10

(* The socket is lost and comes back.                                      *)
LEMMA LinkStep ==
  ASSUME PageCallsAssumption, CallsIInv, LoseSocket \/ Reopen
  PROVE  CallsIInv'
<1>1. CASE LoseSocket
  <2>1. \A c \in Calls : call'[c] \in PromiseRow /\ PromiseSound(call'[c])
    <3> SUFFICES ASSUME NEW c \in Calls
                 PROVE  call'[c] \in PromiseRow /\ PromiseSound(call'[c])
      OBVIOUS
    <3>1. PICK p \in PromiseRow : p = call[c] /\ PromiseSound(p)
      BY DEF CallsIInv
    <3>2. CASE p.kind = "emit" /\ p.at \in {"wire", "did", "declined"}
      <4>1. PICK q : q = [p EXCEPT !.at = "over"]
        OBVIOUS
      <4>2. q \in PromiseRow /\ q.state = p.state /\ q.code = p.code /\ q.at = "over"
            /\ q.done = p.done
        BY <4>1 DEF PromiseRow, Places
      <4>3. PromiseSound(q)
        BY <3>1, <3>2, <4>2 DEF PromiseSound
      <4>4. call'[c] = q
        BY <1>1, <3>1, <3>2, <4>1 DEF LoseSocket
      <4> QED BY <4>2, <4>3, <4>4
    <3>3. CASE ~(p.kind = "emit" /\ p.at \in {"wire", "did", "declined"})
      BY <1>1, <3>1, <3>3 DEF LoseSocket
    <3> QED BY <3>2, <3>3
  <2>2. call' \in [Calls -> PromiseRow]
    BY <1>1, <2>1 DEF LoseSocket
  <2>3. flaps' \in 0 .. MaxFlap
    <3>1. flaps \in 0 .. MaxFlap /\ MaxFlap \in Nat
      BY DEF CallsIInv, PageCallsAssumption
    <3>2. flaps < MaxFlap /\ flaps' = flaps + 1
      BY <1>1 DEF LoseSocket
    <3> QED BY <3>1, <3>2
  <2>4. wsOpen' \in BOOLEAN
    BY <1>1 DEF LoseSocket
  <2> QED BY <2>1, <2>2, <2>3, <2>4 DEF CallsIInv
<1>2. CASE Reopen
  BY <1>2 DEF Reopen, CallsIInv
<1> QED BY <1>1, <1>2

LEMMA CallsStepIInv == PageCallsAssumption /\ CallsIInv /\ [CallsNext]_callVars => CallsIInv'
<1> SUFFICES ASSUME PageCallsAssumption, CallsIInv, [CallsNext]_callVars
             PROVE  CallsIInv'
  OBVIOUS
<1>1. CASE UNCHANGED callVars
  BY <1>1 DEF callVars, CallsIInv
<1>2. CASE CallsNext
  BY <1>2, LinkStep, PageStep, ShellStep DEF CallsNext
<1> QED BY <1>1, <1>2

(* An answer after the first one is dropped, and so is a timer.            *)
LEMMA SettledStays ==
  ASSUME CallsIInv, [CallsNext]_callVars, NEW c \in Calls,
         call[c].state \in {"resolved", "rejected"}
  PROVE  call'[c].state = call[c].state /\ call'[c].code = call[c].code
<1>1. call \in [Calls -> PromiseRow]
  BY DEF CallsIInv
<1>2. ASSUME NEW d \in Calls, NEW code, NEW done, call' = Answer(d, code, done)
      PROVE  call'[c].state = call[c].state /\ call'[c].code = call[c].code
  <2>1. CASE d = c
    <3>1. call'[c] = [call[c] EXCEPT !.at = "over", !.done = done]
      BY <1>1, <1>2, <2>1 DEF Answer, Settled
    <3> QED BY <1>1, <3>1 DEF PromiseRow
  <2>2. CASE d # c
    <3>1. call'[c] = call[c]
      BY <1>1, <1>2, <2>2 DEF Answer, Settled
    <3> QED BY <3>1
  <2> QED BY <2>1, <2>2
<1>3. CASE UNCHANGED callVars
  BY <1>3 DEF callVars
<1>4. CASE LoseSocket
  <2>1. call'[c] = call[c] \/ call'[c] = [call[c] EXCEPT !.at = "over"]
    BY <1>4 DEF LoseSocket
  <2> QED BY <1>1, <2>1 DEF PromiseRow
<1>5. CASE Reopen
  BY <1>5 DEF Reopen
<1>6. ASSUME NEW d \in Calls, AskEmit(d) \/ AskUpload(d) \/ AskBlob(d) \/ AskMutate(d) \/ TimeOut(d)
      PROVE  call'[c].state = call[c].state /\ call'[c].code = call[c].code
  <2>1. call[d].state \in {"idle", "pending"}
    BY <1>6 DEF AskEmit, AskUpload, AskBlob, AskMutate, Ask, TimeOut
  <2>2. \E q : call' = [call EXCEPT ![d] = q]
    BY <1>6 DEF AskEmit, AskUpload, AskBlob, AskMutate, Ask, TimeOut
  <2>3. d # c
    BY <2>1
  <2> QED BY <1>1, <2>2, <2>3
<1>7. ASSUME NEW d \in Calls, NEW at, call' = [call EXCEPT ![d].at = at]
      PROVE  call'[c].state = call[c].state /\ call'[c].code = call[c].code
  <2>1. call'[c] = call[c] \/ call'[c] = [call[c] EXCEPT !.at = at]
    BY <1>1, <1>7
  <2> QED BY <1>1, <2>1 DEF PromiseRow
<1>8. ASSUME NEW d \in Calls, Refuse(d) \/ EndFetch(d) \/ AckArrives(d)
      PROVE  call'[c].state = call[c].state /\ call'[c].code = call[c].code
  <2>1. \E code, done : call' = Answer(d, code, done)
    BY <1>8 DEF Refuse, EndFetch, AckArrives
  <2> QED BY <1>2, <2>1
<1>9. ASSUME NEW d \in Calls, ForwardEmit(d) \/ StartFetch(d)
      PROVE  call'[c].state = call[c].state /\ call'[c].code = call[c].code
  BY <1>2, <1>7, <1>9 DEF ForwardEmit, StartFetch
<1>10. ASSUME NEW d \in Calls, Perform(d)
       PROVE  call'[c].state = call[c].state /\ call'[c].code = call[c].code
  <2>1. CASE call' = [call EXCEPT ![d] = [@ EXCEPT !.at = "did", !.done = TRUE]]
    <3>1. call'[c] = call[c] \/ call'[c] = [call[c] EXCEPT !.at = "did", !.done = TRUE]
      BY <1>1, <2>1
    <3> QED BY <1>1, <3>1 DEF PromiseRow
  <2>2. CASE call' = [call EXCEPT ![d].at = "declined"]
    BY <1>7, <2>2
  <2> QED BY <1>10, <2>1, <2>2 DEF Perform
<1> QED BY <1>3, <1>4, <1>5, <1>6, <1>8, <1>9, <1>10 DEF CallsNext

(* A promise of the page tells the truth: one that resolves was carried    *)
(* out, and one that was refused was not and will not be.                  *)
THEOREM CallsSound == CallsSpec => []CallsInv
<1>1. CallsIInv => CallsInv
  BY DEF CallsIInv, CallsInv, CallsTypeOK, ResolvedIsDone, RefusedIsNotDone, PromiseSound,
         RefusalCodes
<1> QED BY <1>1, CallsInitIInv, CallsStepIInv, PageCallsAssumption, PTL DEF CallsSpec

(* A promise is settled once, whatever answers and timers still come.      *)
THEOREM CallsSettleOnce == CallsSpec => SettlesOnce
<1>1. CallsSpec => []CallsIInv
  BY CallsInitIInv, CallsStepIInv, PageCallsAssumption, PTL DEF CallsSpec
<1>2. CallsIInv /\ [CallsNext]_callVars =>
          [\A c \in Calls : call[c].state \in {"resolved", "rejected"} =>
               /\ call'[c].state = call[c].state
               /\ call'[c].code = call[c].code]_callVars
  BY SettledStays
<1> QED BY <1>1, <1>2, PTL DEF CallsSpec, SettlesOnce

-----------------------------------------------------------------------------
(* A ticket that has let an upgrade in is spent, is of this pane, and the  *)
(* upgrade has its rights.                                                 *)
TicketsSpent ==
    /\ \A x \in opened :
           /\ ticket[x[1]].state = "gone" /\ ticket[x[1]].here
           /\ up[x[2]].cred = x[1] /\ up[x[2]].step # "new"
           /\ up[x[2]].canEmit = ticket[x[1]].canEmit /\ up[x[2]].anon = ticket[x[1]].anon
    /\ TicketOpensOnce

(* The frames of a connection, of what it may send.                        *)
FrameSound(u) ==
    /\ up[u].step = "new" => frames[u].events = 0
    /\ ~up[u].canEmit => frames[u].events = 0
    /\ up[u].anon => frames[u].events <= frames[u].counted /\ frames[u].events <= Allowance
FramesSound == \A u \in Upgrades : FrameSound(u)

(* Connections and the upgrades that are about to be one.                  *)
Taken == {u \in Upgrades : up[u].step \in {"connect", "open"}}
Room == Cap + (IF burst = 0 THEN 1 ELSE burst)
CapKept == Cardinality(Taken) < Room

GateIInv == GateTypeOK /\ TicketsSpent /\ FramesSound /\ CapKept

(* Both are finite, and disjoint.                                          *)
LEMMA TakenCount ==
  ASSUME WsGateAssumption
  PROVE  /\ Cardinality(Taken) = Cardinality(Connected) + Cardinality(InFlight)
         /\ \A S \in SUBSET Upgrades :
                IsFiniteSet(S) /\ Cardinality(S) \in Nat /\ Cardinality(S) <= Cardinality(Upgrades)
<1>1. \A S \in SUBSET Upgrades :
          IsFiniteSet(S) /\ Cardinality(S) \in Nat /\ Cardinality(S) <= Cardinality(Upgrades)
  BY FS_Subset, FS_CardinalityType DEF WsGateAssumption
<1>2. Connected \in SUBSET Upgrades /\ InFlight \in SUBSET Upgrades
  BY DEF Connected, InFlight
<1>3. Taken = Connected \cup InFlight /\ Connected \cap InFlight = {}
  BY DEF Taken, Connected, InFlight
<1>4. /\ IsFiniteSet(Connected) /\ Cardinality(Connected) \in Nat
      /\ IsFiniteSet(InFlight) /\ Cardinality(InFlight) \in Nat
  BY <1>1, <1>2
<1>5. Cardinality(Connected \cup InFlight)
          = Cardinality(Connected) + Cardinality(InFlight) - Cardinality(Connected \cap InFlight)
  BY <1>4, FS_Union
<1>6. Cardinality(Connected \cap InFlight) = 0
  BY <1>3, FS_EmptySet
<1> QED BY <1>1, <1>3, <1>4, <1>5, <1>6

(* A place that is given up, or kept, leaves the cap as it was.            *)
LEMMA PlacesFall ==
  ASSUME WsGateAssumption, CapKept, burst \in Nat, Taken' \subseteq Taken, burst' = burst
  PROVE  CapKept'
<1>1. Taken \in SUBSET Upgrades /\ Taken' \in SUBSET Upgrades
  BY DEF Taken
<1>2. IsFiniteSet(Taken) /\ Cardinality(Taken) \in Nat /\ Cardinality(Taken') \in Nat
  BY <1>1, TakenCount
<1>3. Cardinality(Taken') <= Cardinality(Taken)
  BY <1>2, FS_Subset
<1>4. PICK m, n, r : m = Cardinality(Taken) /\ n = Cardinality(Taken') /\ r = Room
  OBVIOUS
<1>5. r \in Nat /\ Room' = r
  BY <1>4 DEF Room, WsGateAssumption
<1>6. m < r
  BY <1>4 DEF CapKept
<1> QED BY <1>2, <1>3, <1>4, <1>5, <1>6 DEF CapKept

LEMMA GateInitIInv == WsGateAssumption /\ GateInit => GateIInv
<1> SUFFICES ASSUME WsGateAssumption, GateInit
             PROVE  GateIInv
  OBVIOUS
<1>1. Cardinality(Upgrades) \in Nat
  BY FS_CardinalityType DEF WsGateAssumption
<1>2. ticket \in [Tickets -> TicketRow]
  BY DEF GateInit, TicketRow
<1>3. up \in [Upgrades -> UpgradeRow] /\ \A u \in Upgrades : up[u].step = "new"
  BY DEF GateInit, UpgradeRow, Steps
<1>4. /\ frames \in [Upgrades -> FrameRow]
      /\ \A u \in Upgrades : frames[u].events = 0 /\ frames[u].counted = 0
  BY DEF GateInit, FrameRow, WsGateAssumption
<1>5. GateTypeOK
  BY <1>1, <1>2, <1>3, <1>4 DEF GateTypeOK, GateInit
<1>6. FramesSound
  BY <1>4 DEF FramesSound, FrameSound, WsGateAssumption
<1>7. CapKept
  <2>1. Taken = {}
    BY <1>3 DEF Taken
  <2>2. Cardinality(Taken) = 0
    BY <2>1, FS_EmptySet
  <2> QED BY <2>2 DEF CapKept, Room, GateInit, WsGateAssumption
<1> QED BY <1>5, <1>6, <1>7 DEF GateIInv, TicketsSpent, TicketOpensOnce, GateInit

(* What a step does that leaves the rights of the upgrades alone.          *)
Advances(u) ==
    /\ UNCHANGED <<ticket, opened, frames>>
    /\ up' \in [Upgrades -> UpgradeRow]
    /\ \A v \in Upgrades : /\ up'[v].cred = up[v].cred /\ up'[v].canEmit = up[v].canEmit
                           /\ up'[v].anon = up[v].anon
                           /\ (up'[v].step = "new" => up[v].step = "new")
                           /\ (up[v].step = "new" => up'[v].step = "new")
    /\ \A v \in Upgrades : v # u => up'[v] = up[v]

LEMMA RightsKept ==
  ASSUME GateIInv, NEW u \in Upgrades, Advances(u)
  PROVE  TicketsSpent' /\ FramesSound'
<1>1. opened \subseteq Tickets \X Upgrades
  BY DEF GateIInv, GateTypeOK
<1>2. TicketOpensOnce'
  BY DEF GateIInv, TicketsSpent, TicketOpensOnce, Advances
<1>3. \A x \in opened :
          /\ ticket[x[1]].state = "gone" /\ ticket[x[1]].here
          /\ up'[x[2]].cred = x[1] /\ up'[x[2]].step # "new"
          /\ up'[x[2]].canEmit = ticket[x[1]].canEmit /\ up'[x[2]].anon = ticket[x[1]].anon
  <2> SUFFICES ASSUME NEW x \in opened
               PROVE  /\ ticket[x[1]].state = "gone" /\ ticket[x[1]].here
                      /\ up'[x[2]].cred = x[1] /\ up'[x[2]].step # "new"
                      /\ up'[x[2]].canEmit = ticket[x[1]].canEmit
                      /\ up'[x[2]].anon = ticket[x[1]].anon
    OBVIOUS
  <2>1. x[2] \in Upgrades
    BY <1>1
  <2>2. /\ ticket[x[1]].state = "gone" /\ ticket[x[1]].here
        /\ up[x[2]].cred = x[1] /\ up[x[2]].step # "new"
        /\ up[x[2]].canEmit = ticket[x[1]].canEmit /\ up[x[2]].anon = ticket[x[1]].anon
    BY DEF GateIInv, TicketsSpent
  <2> QED BY <2>1, <2>2 DEF Advances
<1>4. TicketsSpent'
  BY <1>2, <1>3 DEF Advances, TicketsSpent
<1>5. FramesSound'
  BY DEF GateIInv, FramesSound, FrameSound, Advances
<1> QED BY <1>4, <1>5

(* An upgrade is turned away, passes the pane, connects, is pinged, goes.  *)
LEMMA AdvanceStep ==
  ASSUME WsGateAssumption, GateIInv, NEW u \in Upgrades,
         GatePane(u) \/ Connect(u) \/ Heartbeat(u) \/ Pong(u) \/ PeerVanishes(u) \/ Disconnect(u)
  PROVE  GateIInv'
<1>1. PICK r \in UpgradeRow : r = up[u]
  BY DEF GateIInv, GateTypeOK
<1>2. UNCHANGED <<ticket, pane, burst, opened, frames>>
  BY DEF GatePane, Connect, Heartbeat, Pong, PeerVanishes, Disconnect
<1>3. \E q \in UpgradeRow :
          /\ up' = [up EXCEPT ![u] = q]
          /\ q.cred = r.cred /\ q.canEmit = r.canEmit /\ q.anon = r.anon
          /\ (q.step = "new" <=> r.step = "new")
          /\ (q.step \in {"connect", "open"} => r.step \in {"connect", "open"})
  <2>1. CASE GatePane(u)
    <3>1. PICK s \in {"count", "refused"} : up' = [up EXCEPT ![u] = [r EXCEPT !.step = s]]
      BY <1>1, <2>1 DEF GatePane
    <3>2. PICK q : q = [r EXCEPT !.step = s]
      OBVIOUS
    <3>3. /\ q \in UpgradeRow /\ q.step = s
          /\ q.cred = r.cred /\ q.canEmit = r.canEmit /\ q.anon = r.anon
      BY <3>2 DEF UpgradeRow, Steps
    <3> QED BY <1>1, <2>1, <3>1, <3>2, <3>3 DEF GatePane
  <2>2. CASE Connect(u)
    <3>1. CASE up' = [up EXCEPT ![u] = [@ EXCEPT !.step = "open", !.alive = TRUE]]
      <4>1. PICK q : q = [r EXCEPT !.step = "open", !.alive = TRUE]
        OBVIOUS
      <4>2. /\ q \in UpgradeRow /\ q.step = "open"
            /\ q.cred = r.cred /\ q.canEmit = r.canEmit /\ q.anon = r.anon
        BY <4>1 DEF UpgradeRow, Steps
      <4>3. up' = [up EXCEPT ![u] = q]
        BY <1>1, <3>1, <4>1
      <4> QED BY <1>1, <2>2, <4>2, <4>3 DEF Connect
    <3>2. CASE up' = [up EXCEPT ![u].step = "refused"]
      <4>1. PICK q : q = [r EXCEPT !.step = "refused"]
        OBVIOUS
      <4>2. /\ q \in UpgradeRow /\ q.step = "refused"
            /\ q.cred = r.cred /\ q.canEmit = r.canEmit /\ q.anon = r.anon
        BY <4>1 DEF UpgradeRow, Steps
      <4>3. up' = [up EXCEPT ![u] = q]
        BY <1>1, <3>2, <4>1
      <4> QED BY <1>1, <2>2, <4>2, <4>3 DEF Connect
    <3> QED BY <2>2, <3>1, <3>2 DEF Connect
  <2>3. CASE (Heartbeat(u) /\ ~r.alive) \/ Disconnect(u)
    <3>1. PICK q : q = [r EXCEPT !.step = "gone"]
      OBVIOUS
    <3>2. /\ q \in UpgradeRow /\ q.step = "gone"
          /\ q.cred = r.cred /\ q.canEmit = r.canEmit /\ q.anon = r.anon
      BY <3>1 DEF UpgradeRow, Steps
    <3>3. up' = [up EXCEPT ![u] = q] /\ r.step = "open"
      BY <1>1, <2>3, <3>1 DEF Heartbeat, Disconnect
    <3> QED BY <3>2, <3>3
  <2>4. CASE (Heartbeat(u) /\ r.alive) \/ Pong(u)
    <3>1. PICK b \in BOOLEAN : up' = [up EXCEPT ![u] = [r EXCEPT !.alive = b]]
      BY <1>1, <2>4 DEF Heartbeat, Pong
    <3>2. PICK q : q = [r EXCEPT !.alive = b]
      OBVIOUS
    <3>3. /\ q \in UpgradeRow /\ q.step = r.step
          /\ q.cred = r.cred /\ q.canEmit = r.canEmit /\ q.anon = r.anon
      BY <3>2 DEF UpgradeRow
    <3> QED BY <3>1, <3>2, <3>3
  <2>5. CASE PeerVanishes(u)
    <3>1. PICK q : q = [r EXCEPT !.peer = FALSE]
      OBVIOUS
    <3>2. /\ q \in UpgradeRow /\ q.step = r.step
          /\ q.cred = r.cred /\ q.canEmit = r.canEmit /\ q.anon = r.anon
      BY <3>1 DEF UpgradeRow
    <3>3. up' = [up EXCEPT ![u] = q]
      BY <1>1, <2>5, <3>1 DEF PeerVanishes
    <3> QED BY <3>2, <3>3
  <2> QED BY <2>1, <2>2, <2>3, <2>4, <2>5
<1>4. PICK q \in UpgradeRow :
          /\ up' = [up EXCEPT ![u] = q]
          /\ q.cred = r.cred /\ q.canEmit = r.canEmit /\ q.anon = r.anon
          /\ (q.step = "new" <=> r.step = "new")
          /\ (q.step \in {"connect", "open"} => r.step \in {"connect", "open"})
  BY <1>3
<1>5. up \in [Upgrades -> UpgradeRow]
  BY DEF GateIInv, GateTypeOK
<1>6. /\ up' \in [Upgrades -> UpgradeRow] /\ up'[u] = q
      /\ \A v \in Upgrades : v # u => up'[v] = up[v]
  BY <1>4, <1>5
<1>7. Advances(u)
  BY <1>1, <1>2, <1>4, <1>6 DEF Advances
<1>8. Taken' \subseteq Taken
  BY <1>1, <1>4, <1>6 DEF Taken
<1>9. burst \in Nat
  BY TakenCount DEF GateIInv, GateTypeOK
<1>10. CapKept'
  BY <1>2, <1>8, <1>9, PlacesFall DEF GateIInv
<1> QED BY <1>2, <1>6, <1>7, <1>10, RightsKept DEF GateIInv, GateTypeOK

(* The cap is looked at before the upgrade takes its place.                *)
LEMMA CountStep ==
  ASSUME WsGateAssumption, GateIInv, NEW u \in Upgrades, GateCount(u)
  PROVE  GateIInv'
<1>1. PICK r \in UpgradeRow : r = up[u] /\ r.step = "count"
  BY DEF GateIInv, GateTypeOK, GateCount
<1>2. UNCHANGED <<ticket, pane, opened, frames>>
  BY DEF GateCount
<1>3. PICK s \in {"connect", "refused"} : s = IF UnderCap THEN "connect" ELSE "refused"
  OBVIOUS
<1>4. PICK q : q = [r EXCEPT !.step = s]
  OBVIOUS
<1>5. /\ q \in UpgradeRow /\ q.step = s
      /\ q.cred = r.cred /\ q.canEmit = r.canEmit /\ q.anon = r.anon
  BY <1>4 DEF UpgradeRow, Steps
<1>6. up' = [up EXCEPT ![u] = q]
  BY <1>1, <1>3, <1>4 DEF GateCount
<1>7. up \in [Upgrades -> UpgradeRow] /\ burst \in 0 .. Cardinality(Upgrades)
  BY DEF GateIInv, GateTypeOK
<1>8. /\ up' \in [Upgrades -> UpgradeRow] /\ up'[u] = q
      /\ \A v \in Upgrades : v # u => up'[v] = up[v]
  BY <1>5, <1>6, <1>7
<1>9. Advances(u)
  BY <1>1, <1>2, <1>3, <1>5, <1>8 DEF Advances
<1>10. Cardinality(Upgrades) \in Nat /\ burst \in Nat
  BY <1>7, FS_CardinalityType DEF WsGateAssumption
<1>11. u \notin InFlight /\ u \notin Taken /\ InFlight \in SUBSET Upgrades
       /\ Connected \in SUBSET Upgrades /\ Taken \in SUBSET Upgrades
  BY <1>1 DEF InFlight, Taken, Connected
<1>12. PICK n : n = Cardinality(InFlight) + 1
  OBVIOUS
<1>13. n \in Nat /\ n <= Cardinality(Upgrades)
  <2>1. IsFiniteSet(InFlight) /\ Cardinality(InFlight) \in Nat
    BY <1>11, TakenCount
  <2>2. Cardinality(InFlight \cup {u}) = n
    BY <1>11, <1>12, <2>1, FS_AddElement
  <2>3. InFlight \cup {u} \in SUBSET Upgrades
    BY <1>11
  <2> QED BY <1>12, <2>1, <2>2, <2>3, TakenCount
<1>14. burst' = IF UnderCap /\ n > burst THEN n ELSE burst
  BY <1>12 DEF GateCount
<1>15. burst' \in 0 .. Cardinality(Upgrades)
  BY <1>7, <1>10, <1>13, <1>14
<1>16. CapKept'
  <2>1. CASE UnderCap
    <3>1. Taken' = Taken \cup {u}
      BY <1>3, <1>5, <1>8, <2>1 DEF Taken
    <3>2. IsFiniteSet(Taken) /\ Cardinality(Taken) \in Nat
      BY <1>11, TakenCount
    <3>3. Cardinality(Taken') = Cardinality(Taken) + 1
      BY <1>11, <3>1, <3>2, FS_AddElement
    <3>4. Cardinality(Taken) = Cardinality(Connected) + Cardinality(InFlight)
      BY TakenCount
    <3>5. Cardinality(Connected) \in Nat /\ Cardinality(InFlight) \in Nat
      BY <1>11, TakenCount
    <3>6. Cardinality(Connected) < Cap /\ Cap \in Nat
      BY <2>1 DEF UnderCap, WsGateAssumption
    <3>7. PICK b : b = burst'
      OBVIOUS
    <3>8. b >= n /\ b \in Nat /\ b # 0
      BY <1>10, <1>12, <1>13, <1>14, <2>1, <3>5, <3>7
    <3>9. Room' = Cap + b
      BY <3>7, <3>8 DEF Room
    <3>10. Cardinality(Taken') < Cap + b
      BY <1>12, <3>3, <3>4, <3>5, <3>6, <3>8
    <3> QED BY <3>9, <3>10 DEF CapKept
  <2>2. CASE ~UnderCap
    <3>1. Taken' \subseteq Taken
      BY <1>3, <1>5, <1>8, <2>2 DEF Taken
    <3>2. burst' = burst
      BY <1>14, <2>2
    <3> QED BY <1>10, <3>1, <3>2, PlacesFall DEF GateIInv
  <2> QED BY <2>1, <2>2
<1> QED BY <1>2, <1>8, <1>9, <1>15, <1>16, RightsKept DEF GateIInv, GateTypeOK

(* A credential is taken: the ticket is spent by the first that comes.     *)
LEMMA CredentialStep ==
  ASSUME WsGateAssumption, GateIInv, NEW u \in Upgrades, TakeCredential(u)
  PROVE  GateIInv'
<1>1. PICK r \in UpgradeRow : r = up[u] /\ r.step = "new"
  BY DEF GateIInv, GateTypeOK, TakeCredential
<1>2. /\ up \in [Upgrades -> UpgradeRow] /\ ticket \in [Tickets -> TicketRow]
      /\ opened \subseteq Tickets \X Upgrades
  BY DEF GateIInv, GateTypeOK
<1>3. UNCHANGED <<pane, burst, frames>>
  BY DEF TakeCredential
<1>4. PICK t : t = r.cred
  OBVIOUS
<1>5. t \in Tickets \/ t = Bearer
  BY <1>4 DEF UpgradeRow
<1>6. PICK can, an \in BOOLEAN :
          /\ can = Rights(u).canEmit /\ an = Rights(u).anon
          /\ t # Bearer => can = ticket[t].canEmit /\ an = ticket[t].anon
  BY <1>1, <1>2, <1>4, <1>5 DEF Rights, TicketRow
<1>7. PICK valid \in BOOLEAN :
          /\ \/ t = Bearer /\ UNCHANGED <<ticket, opened>>
             \/ /\ t # Bearer /\ t \in Tickets
                /\ (valid => ticket[t].state = "live" /\ ticket[t].here)
                /\ opened' = IF valid THEN opened \cup {<<t, u>>} ELSE opened
                /\ ticket' = IF ticket[t].state \in {"live", "expired"}
                             THEN [ticket EXCEPT ![t].state = "gone"] ELSE ticket
          /\ up' = [up EXCEPT ![u] = [r EXCEPT !.step = IF valid THEN "pane" ELSE "refused",
                                               !.canEmit = can, !.anon = an]]
  BY <1>1, <1>4, <1>5, <1>6 DEF TakeCredential, RedeemTicket
<1>8. PICK s \in {"pane", "refused"} : s = IF valid THEN "pane" ELSE "refused"
  OBVIOUS
<1>9. PICK q : q = [r EXCEPT !.step = s, !.canEmit = can, !.anon = an]
  OBVIOUS
<1>10. q \in UpgradeRow /\ q.step = s /\ q.cred = t /\ q.canEmit = can /\ q.anon = an
  BY <1>4, <1>9 DEF UpgradeRow, Steps
<1>11. up' = [up EXCEPT ![u] = q]
  BY <1>7, <1>8, <1>9
<1>12. /\ up' \in [Upgrades -> UpgradeRow] /\ up'[u] = q
       /\ \A v \in Upgrades : v # u => up'[v] = up[v]
  BY <1>2, <1>10, <1>11
<1>13. /\ ticket' \in [Tickets -> TicketRow]
       /\ \A x \in Tickets : /\ ticket'[x].here = ticket[x].here
                             /\ ticket'[x].canEmit = ticket[x].canEmit
                             /\ ticket'[x].anon = ticket[x].anon
                             /\ (ticket[x].state = "gone" => ticket'[x].state = "gone")
                             /\ (x = t /\ valid /\ t # Bearer => ticket'[x].state = "gone")
  <2>1. CASE UNCHANGED ticket /\ ~(t # Bearer /\ valid)
    BY <1>2, <2>1
  <2>2. CASE /\ t # Bearer /\ t \in Tickets
             /\ ticket' = [ticket EXCEPT ![t].state = "gone"]
    <3>1. PICK k \in TicketRow : k = ticket[t]
      BY <1>2, <2>2
    <3>2. PICK g : g = [k EXCEPT !.state = "gone"]
      OBVIOUS
    <3>3. g \in TicketRow /\ g.state = "gone" /\ g.here = k.here /\ g.canEmit = k.canEmit
          /\ g.anon = k.anon
      BY <3>2 DEF TicketRow
    <3>4. ticket' = [ticket EXCEPT ![t] = g]
      BY <2>2, <3>1, <3>2
    <3> QED BY <1>2, <3>1, <3>3, <3>4
  <2> QED BY <1>7, <2>1, <2>2
<1>14. TicketsSpent'
  <2>1. \A x \in opened :
            /\ x[1] \in Tickets /\ x[2] \in Upgrades /\ x[2] # u
            /\ ticket'[x[1]].state = "gone" /\ ticket'[x[1]].here
            /\ up'[x[2]].cred = x[1] /\ up'[x[2]].step # "new"
            /\ up'[x[2]].canEmit = ticket'[x[1]].canEmit /\ up'[x[2]].anon = ticket'[x[1]].anon
    <3> SUFFICES ASSUME NEW x \in opened
                 PROVE  /\ x[1] \in Tickets /\ x[2] \in Upgrades /\ x[2] # u
                        /\ ticket'[x[1]].state = "gone" /\ ticket'[x[1]].here
                        /\ up'[x[2]].cred = x[1] /\ up'[x[2]].step # "new"
                        /\ up'[x[2]].canEmit = ticket'[x[1]].canEmit
                        /\ up'[x[2]].anon = ticket'[x[1]].anon
      OBVIOUS
    <3>1. x[1] \in Tickets /\ x[2] \in Upgrades
      BY <1>2
    <3>2. /\ ticket[x[1]].state = "gone" /\ ticket[x[1]].here
          /\ up[x[2]].cred = x[1] /\ up[x[2]].step # "new"
          /\ up[x[2]].canEmit = ticket[x[1]].canEmit /\ up[x[2]].anon = ticket[x[1]].anon
      BY DEF GateIInv, TicketsSpent
    <3>3. x[2] # u
      BY <1>1, <3>2
    <3> QED BY <1>12, <1>13, <3>1, <3>2, <3>3
  <2>2. TicketOpensOnce
    BY DEF GateIInv, TicketsSpent
  <2>3. CASE opened' = opened
    BY <2>1, <2>2, <2>3 DEF TicketsSpent, TicketOpensOnce
  <2>4. CASE /\ t # Bearer /\ t \in Tickets /\ valid
             /\ opened' = opened \cup {<<t, u>>}
    <3>1. ticket[t].state = "live" /\ ticket[t].here
      BY <1>7, <2>4
    <3>2. \A x \in opened : x[1] # t
      BY <3>1 DEF GateIInv, TicketsSpent
    <3>3. PICK y : y = <<t, u>>
      OBVIOUS
    <3>4. /\ y[1] = t /\ y[2] = u
          /\ ticket'[t].state = "gone" /\ ticket'[t].here
          /\ up'[u].cred = t /\ up'[u].step # "new"
          /\ up'[u].canEmit = ticket'[t].canEmit /\ up'[u].anon = ticket'[t].anon
      BY <1>6, <1>10, <1>12, <1>13, <2>4, <3>1, <3>3
    <3>5. opened' = opened \cup {y}
      BY <2>4, <3>3
    <3>6. TicketOpensOnce'
      BY <2>1, <2>2, <3>2, <3>4, <3>5 DEF TicketOpensOnce
    <3> QED BY <2>1, <3>4, <3>5, <3>6 DEF TicketsSpent
  <2> QED BY <1>7, <2>3, <2>4
<1>15. FramesSound'
  <2> SUFFICES ASSUME NEW v \in Upgrades
               PROVE  FrameSound(v)'
    BY DEF FramesSound
  <2>1. FrameSound(v) /\ frames[v] \in FrameRow
    BY DEF GateIInv, FramesSound, GateTypeOK
  <2>2. CASE v # u
    BY <1>3, <1>12, <2>1, <2>2 DEF FrameSound
  <2>3. CASE v = u
    <3>1. frames'[u].events = 0 /\ frames'[u].counted \in Nat
      BY <1>1, <1>3, <2>1, <2>3 DEF FrameSound, FrameRow, WsGateAssumption
    <3> QED BY <2>3, <3>1 DEF FrameSound, WsGateAssumption
  <2> QED BY <2>2, <2>3
<1>16. CapKept'
  <2>1. Taken' \subseteq Taken
    BY <1>10, <1>12 DEF Taken
  <2>2. burst \in Nat
    BY TakenCount DEF GateIInv, GateTypeOK
  <2> QED BY <1>3, <2>1, <2>2, PlacesFall DEF GateIInv
<1>17. opened' \subseteq Tickets \X Upgrades
  BY <1>2, <1>7
<1> QED BY <1>3, <1>12, <1>13, <1>14, <1>15, <1>16, <1>17 DEF GateIInv, GateTypeOK

(* A frame becomes an event only within the rights of its connection.      *)
LEMMA FrameStep ==
  ASSUME WsGateAssumption, GateIInv, NEW u \in Upgrades, Frame(u)
  PROVE  GateIInv'
<1>1. PICK f \in FrameRow : f = frames[u] /\ FrameSound(u)
  BY DEF GateIInv, GateTypeOK, FramesSound
<1>2. /\ f.counted \in 0 .. Allowance + 1 /\ f.events \in 0 .. MaxFrame
      /\ Allowance \in Nat /\ MaxFrame \in Nat
  BY <1>1 DEF FrameRow, WsGateAssumption
<1>3. UNCHANGED <<ticket, pane, up, burst, opened>> /\ up[u].canEmit /\ up[u].step = "open"
  BY DEF Frame
<1>4. PICK g : g = Count(f, up[u].anon)
  OBVIOUS
<1>5. /\ g \in FrameRow /\ g.events = f.events /\ g.counted >= f.counted
      /\ up[u].anon /\ ~(g.counted > Allowance) => g.counted = f.counted + 1
  <2>1. CASE up[u].anon /\ f.counted <= Allowance
    <3>1. g = [f EXCEPT !.counted = f.counted + 1]
      BY <1>4, <2>1 DEF Count
    <3>2. f.counted + 1 \in 0 .. Allowance + 1
      BY <1>2, <2>1
    <3>3. g \in FrameRow /\ g.events = f.events /\ g.counted = f.counted + 1
      BY <3>1, <3>2 DEF FrameRow
    <3> QED BY <1>2, <3>3
  <2>2. CASE ~(up[u].anon /\ f.counted <= Allowance)
    BY <1>2, <1>4, <2>2 DEF Count
  <2> QED BY <2>1, <2>2
<1>6. \/ frames' = [frames EXCEPT ![u] = g]
      \/ /\ ~(up[u].anon /\ g.counted > Allowance) /\ g.events < MaxFrame
         /\ frames' = [frames EXCEPT ![u] = [g EXCEPT !.events = g.events + 1]]
  BY <1>1, <1>4 DEF Frame
<1>7. \E h \in FrameRow :
          /\ frames' = [frames EXCEPT ![u] = h]
          /\ up[u].anon => h.events <= h.counted /\ h.events <= Allowance
  <2>1. CASE frames' = [frames EXCEPT ![u] = g]
    <3>1. up[u].anon => g.events <= g.counted /\ g.events <= Allowance
      BY <1>1, <1>2, <1>5 DEF FrameSound, FrameRow
    <3> QED BY <1>5, <2>1, <3>1
  <2>2. CASE /\ ~(up[u].anon /\ g.counted > Allowance) /\ g.events < MaxFrame
             /\ frames' = [frames EXCEPT ![u] = [g EXCEPT !.events = g.events + 1]]
    <3>1. PICK h : h = [g EXCEPT !.events = g.events + 1]
      OBVIOUS
    <3>2. g.events + 1 \in 0 .. MaxFrame
      BY <1>2, <1>5, <2>2
    <3>3. h \in FrameRow /\ h.events = g.events + 1 /\ h.counted = g.counted
      BY <1>5, <3>1, <3>2 DEF FrameRow
    <3>4. up[u].anon => h.events <= h.counted /\ h.events <= Allowance
      <4> SUFFICES ASSUME up[u].anon
                   PROVE  h.events <= h.counted /\ h.events <= Allowance
        OBVIOUS
      <4>1. f.events <= f.counted
        BY <1>1 DEF FrameSound
      <4>2. g.counted = f.counted + 1
        BY <1>5, <2>2
      <4>3. g.counted <= Allowance
        BY <1>2, <2>2, <4>2
      <4> QED BY <1>2, <1>5, <3>3, <4>1, <4>2, <4>3
    <3> QED BY <2>2, <3>1, <3>3, <3>4
  <2> QED BY <1>6, <2>1, <2>2
<1>8. PICK h \in FrameRow :
          /\ frames' = [frames EXCEPT ![u] = h]
          /\ up[u].anon => h.events <= h.counted /\ h.events <= Allowance
  BY <1>7
<1>9. /\ frames' \in [Upgrades -> FrameRow] /\ frames'[u] = h
      /\ \A v \in Upgrades : v # u => frames'[v] = frames[v]
  BY <1>8 DEF GateIInv, GateTypeOK
<1>10. FramesSound'
  <2> SUFFICES ASSUME NEW v \in Upgrades
               PROVE  FrameSound(v)'
    BY DEF FramesSound
  <2>1. CASE v = u
    BY <1>3, <1>8, <1>9, <2>1 DEF FrameSound
  <2>2. CASE v # u
    BY <1>3, <1>9, <2>2 DEF FrameSound, GateIInv, FramesSound
  <2> QED BY <2>1, <2>2
<1>11. Taken' = Taken /\ TicketsSpent' /\ CapKept'
  BY <1>3 DEF Taken, TicketsSpent, TicketOpensOnce, GateIInv, CapKept, Room
<1> QED BY <1>3, <1>9, <1>10, <1>11 DEF GateIInv, GateTypeOK

(* Tickets are issued, expire and are forgotten; the pane changes.         *)
LEMMA TicketStep ==
  ASSUME WsGateAssumption, GateIInv,
         \/ PaneChanges \/ PruneTickets
         \/ \E t \in Tickets : IssueTicket(t) \/ TicketExpires(t)
  PROVE  GateIInv'
<1>1. UNCHANGED <<up, burst, opened, frames>>
  BY DEF PaneChanges, PruneTickets, IssueTicket, TicketExpires
<1>2. ticket \in [Tickets -> TicketRow]
  BY DEF GateIInv, GateTypeOK
<1>3. pane' \in [status : {"open", "closed"}, trashed : BOOLEAN]
  BY DEF GateIInv, GateTypeOK, PaneChanges, PruneTickets, IssueTicket, TicketExpires
<1>4. ASSUME NEW x \in Tickets, NEW s \in {"live", "expired", "gone"}, ticket[x].state # "gone"
      PROVE  LET g == [ticket[x] EXCEPT !.state = s] IN
             /\ g \in TicketRow /\ g.here = ticket[x].here /\ g.canEmit = ticket[x].canEmit
             /\ g.anon = ticket[x].anon /\ g.state = s
  BY <1>2 DEF TicketRow
<1>5. /\ ticket' \in [Tickets -> TicketRow]
      /\ \A x \in Tickets : /\ ticket'[x].here = ticket[x].here
                            /\ ticket'[x].canEmit = ticket[x].canEmit
                            /\ ticket'[x].anon = ticket[x].anon
                            /\ (ticket[x].state = "gone" => ticket'[x].state = "gone")
  <2>1. CASE PaneChanges
    BY <1>2, <2>1 DEF PaneChanges
  <2>2. ASSUME NEW t \in Tickets, IssueTicket(t) \/ TicketExpires(t)
        PROVE  /\ ticket' \in [Tickets -> TicketRow]
               /\ \A x \in Tickets : /\ ticket'[x].here = ticket[x].here
                                     /\ ticket'[x].canEmit = ticket[x].canEmit
                                     /\ ticket'[x].anon = ticket[x].anon
                                     /\ (ticket[x].state = "gone" => ticket'[x].state = "gone")
    <3>1. PICK s \in {"live", "expired"} :
              ticket' = [ticket EXCEPT ![t] = [ticket[t] EXCEPT !.state = s]]
      BY <2>2 DEF IssueTicket, TicketExpires
    <3>2. ticket[t].state # "gone"
      BY <2>2 DEF IssueTicket, TicketExpires
    <3>3. PICK g \in TicketRow : /\ g = [ticket[t] EXCEPT !.state = s]
                                 /\ g.here = ticket[t].here /\ g.canEmit = ticket[t].canEmit
                                 /\ g.anon = ticket[t].anon
      BY <1>4, <3>2
    <3>4. ticket' = [ticket EXCEPT ![t] = g]
      BY <3>1, <3>3
    <3> QED BY <1>2, <3>2, <3>3, <3>4
  <2>3. CASE PruneTickets
    <3>1. \A x \in Tickets : /\ ticket'[x] \in TicketRow
                             /\ ticket'[x].here = ticket[x].here
                             /\ ticket'[x].canEmit = ticket[x].canEmit
                             /\ ticket'[x].anon = ticket[x].anon
                             /\ (ticket[x].state = "gone" => ticket'[x].state = "gone")
      <4> SUFFICES ASSUME NEW x \in Tickets
                   PROVE  /\ ticket'[x] \in TicketRow
                          /\ ticket'[x].here = ticket[x].here
                          /\ ticket'[x].canEmit = ticket[x].canEmit
                          /\ ticket'[x].anon = ticket[x].anon
                          /\ (ticket[x].state = "gone" => ticket'[x].state = "gone")
        OBVIOUS
      <4>1. CASE ticket[x].state = "expired"
        <5>1. ticket'[x] = [ticket[x] EXCEPT !.state = "gone"]
          BY <2>3, <4>1 DEF PruneTickets
        <5>2. PICK g \in TicketRow : /\ g = [ticket[x] EXCEPT !.state = "gone"]
                                     /\ g.here = ticket[x].here
                                     /\ g.canEmit = ticket[x].canEmit
                                     /\ g.anon = ticket[x].anon
          BY <1>4, <4>1
        <5> QED BY <4>1, <5>1, <5>2
      <4>2. CASE ticket[x].state # "expired"
        BY <1>2, <2>3, <4>2 DEF PruneTickets
      <4> QED BY <4>1, <4>2
    <3>2. ticket' \in [Tickets -> TicketRow]
      BY <2>3, <3>1 DEF PruneTickets
    <3> QED BY <3>1, <3>2
  <2> QED BY <2>1, <2>2, <2>3
<1>6. TicketsSpent'
  <2>1. opened \subseteq Tickets \X Upgrades
    BY DEF GateIInv, GateTypeOK
  <2>2. \A x \in opened : x[1] \in Tickets
    BY <2>1
  <2> QED BY <1>1, <1>5, <2>2 DEF GateIInv, TicketsSpent, TicketOpensOnce
<1>7. FramesSound' /\ CapKept'
  BY <1>1 DEF GateIInv, FramesSound, FrameSound, CapKept, Taken, Room
<1> QED BY <1>1, <1>3, <1>5, <1>6, <1>7 DEF GateIInv, GateTypeOK

LEMMA GateStepIInv == WsGateAssumption /\ GateIInv /\ [GateNext]_gateVars => GateIInv'
<1> SUFFICES ASSUME WsGateAssumption, GateIInv, [GateNext]_gateVars
             PROVE  GateIInv'
  OBVIOUS
<1>1. CASE UNCHANGED gateVars
  BY <1>1 DEF gateVars, GateIInv, GateTypeOK, TicketsSpent, TicketOpensOnce, FramesSound,
              FrameSound, CapKept, Taken, Room
<1>2. CASE GateNext
  BY <1>2, TicketStep, AdvanceStep, CountStep, CredentialStep, FrameStep DEF GateNext
<1> QED BY <1>1, <1>2

LEMMA GateSuffices == WsGateAssumption /\ GateIInv => GateInv
<1> SUFFICES ASSUME WsGateAssumption, GateIInv
             PROVE  GateInv
  OBVIOUS
<1>1. CapOvershootBounded
  BY TakenCount DEF GateIInv, CapKept, Room, CapOvershootBounded
<1>2. FramesKeepRights
  <2> SUFFICES ASSUME NEW x \in opened
               PROVE  /\ ~ticket[x[1]].canEmit => frames[x[2]].events = 0
                      /\ ticket[x[1]].anon => frames[x[2]].events <= Allowance
    BY DEF FramesKeepRights
  <2>1. x[2] \in Upgrades
    BY DEF GateIInv, GateTypeOK
  <2>2. up[x[2]].canEmit = ticket[x[1]].canEmit /\ up[x[2]].anon = ticket[x[1]].anon
    BY DEF GateIInv, TicketsSpent
  <2>3. FrameSound(x[2])
    BY <2>1 DEF GateIInv, FramesSound
  <2> QED BY <2>2, <2>3 DEF FrameSound
<1> QED BY <1>1, <1>2 DEF GateInv, GateIInv, TicketsSpent

(* A ticket lets one upgrade in, to its own pane; the cap is exceeded at   *)
(* most by the upgrades that met between its check and their connection;   *)
(* and what the ticket of a connection does not permit is never an event.  *)
THEOREM GateSound == GateSpec => []GateInv
BY GateInitIInv, GateStepIInv, GateSuffices, WsGateAssumption, PTL DEF GateSpec

-----------------------------------------------------------------------------
(* Sockets whose joined row has no left row yet.                           *)
Owing(a) == {s \in Sockets : wire[s].state \in {"deaf", "live", "leaving"} /\ wire[s].by = a}

(* With one process each of them has its unpaired row, and a process that  *)
(* starts has still to write exactly the rows that are missing.            *)
RowsPaired ==
    Cardinality(Relays) = 1 =>
        /\ \A a \in Visitors : Net(a) >= Cardinality(Owing(a))
        /\ \A r \in Relays : relay[r] = "starting" =>
               \A a \in Visitors : surplus[r][a] = Net(a)

AttendIInv == AttendTypeOK /\ RowsPaired

LEMMA SocketsFinite ==
  ASSUME AttendanceAssumption, NEW S \in SUBSET Sockets
  PROVE  IsFiniteSet(S) /\ Cardinality(S) \in Nat
BY FS_Subset, FS_CardinalityType DEF AttendanceAssumption

LEMMA OwingFinite ==
  ASSUME AttendanceAssumption, NEW a
  PROVE  /\ Owing(a) \subseteq Sockets
         /\ IsFiniteSet(Owing(a)) /\ Cardinality(Owing(a)) \in Nat
<1>1. Owing(a) \in SUBSET Sockets
  BY DEF Owing
<1> QED BY <1>1, SocketsFinite

(* The only process is the one.                                            *)
LEMMA OneProcess ==
  ASSUME AttendanceAssumption, Cardinality(Relays) = 1, NEW r \in Relays, NEW q \in Relays
  PROVE  r = q
<1>1. \E x : Relays = {x}
  BY FS_Singleton DEF AttendanceAssumption
<1> QED BY <1>1

(* While it starts, no socket is there.                                    *)
LEMMA NobodyYet ==
  ASSUME AttendanceAssumption, AttendTypeOK, Cardinality(Relays) = 1,
         NEW r \in Relays, relay[r] # "up"
  PROVE  \A s \in Sockets : wire[s] = NoWire
<1> SUFFICES ASSUME NEW s \in Sockets, wire[s] # NoWire
             PROVE  FALSE
  OBVIOUS
<1>1. wire[s] \in WireRow
  BY DEF AttendTypeOK, Wires
<1>2. wire[s].on \in Relays /\ relay[wire[s].on] = "up"
  BY <1>1 DEF AttendTypeOK, WireRow
<1> QED BY <1>2, OneProcess

LEMMA AttendInitIInv == AttendanceAssumption /\ AttendInit => AttendIInv
<1> SUFFICES ASSUME AttendanceAssumption, AttendInit
             PROVE  AttendIInv
  OBVIOUS
<1>1. AttendTypeOK
  BY DEF AttendInit, AttendTypeOK, Wires
<1>2. \A a \in Visitors : Net(a) >= Cardinality(Owing(a))
  <2> SUFFICES ASSUME NEW a \in Visitors
               PROVE  Net(a) >= Cardinality(Owing(a))
    OBVIOUS
  <2>1. Owing(a) = {}
    BY DEF Owing, AttendInit, NoWire
  <2>2. Cardinality(Owing(a)) = 0
    BY <2>1, FS_EmptySet
  <2>3. Net(a) = 0
    BY DEF Net, AttendInit
  <2> QED BY <2>2, <2>3
<1>3. \A r \in Relays : relay[r] # "starting"
  BY DEF AttendInit
<1> QED BY <1>1, <1>2, <1>3 DEF AttendIInv, RowsPaired

(* One socket changes, and at most one row of its author is written.       *)
SocketMoves(s, w) ==
    /\ wire' = [wire EXCEPT ![s] = w] /\ w \in Wires
    /\ (w # NoWire => relay[w.on] = "up" /\ (wire[s] # NoWire => w.by = wire[s].by))
    /\ UNCHANGED <<relay, surplus>>
Owes(w) == w.state \in {"deaf", "live", "leaving"}

LEMMA SocketTyped ==
  ASSUME AttendIInv, NEW s \in Sockets, NEW w, SocketMoves(s, w),
         joined' \in [Visitors -> Nat], left' \in [Visitors -> Nat]
  PROVE  /\ AttendTypeOK' /\ wire'[s] = w
         /\ \A t \in Sockets : t # s => wire'[t] = wire[t]
<1>1. wire \in [Sockets -> Wires]
  BY DEF AttendIInv, AttendTypeOK
<1>2. wire' \in [Sockets -> Wires] /\ wire'[s] = w /\ \A t \in Sockets : t # s => wire'[t] = wire[t]
  BY <1>1 DEF SocketMoves
<1>3. \A t \in Sockets : wire'[t] # NoWire => relay'[wire'[t].on] = "up"
  BY <1>2 DEF SocketMoves, AttendIInv, AttendTypeOK
<1> QED BY <1>2, <1>3 DEF SocketMoves, AttendIInv, AttendTypeOK

(* A socket that moves is of a process that is up: none is starting.       *)
LEMMA SocketMeansUp ==
  ASSUME AttendanceAssumption, AttendIInv, NEW s \in Sockets,
         \/ wire[s] # NoWire
         \/ \E q \in Relays : relay[q] = "up",
         Cardinality(Relays) = 1
  PROVE  \A r \in Relays : relay[r] # "starting"
<1>1. CASE wire[s] # NoWire
  BY <1>1, NobodyYet DEF AttendIInv
<1>2. CASE \E q \in Relays : relay[q] = "up"
  BY <1>2, OneProcess
<1> QED BY <1>1, <1>2

(* Nothing is written: the socket owes no more than before.                *)
LEMMA QuietStep ==
  ASSUME AttendanceAssumption, AttendIInv, NEW s \in Sockets, NEW w, SocketMoves(s, w),
         Owes(w) => Owes(wire[s]) /\ wire[s] # NoWire /\ w # NoWire,
         \/ wire[s] # NoWire
         \/ \E q \in Relays : relay[q] = "up",
         UNCHANGED <<joined, left>>
  PROVE  AttendIInv'
<1>1. joined' \in [Visitors -> Nat] /\ left' \in [Visitors -> Nat]
  BY DEF AttendIInv, AttendTypeOK
<1>2. /\ AttendTypeOK' /\ wire'[s] = w
      /\ \A t \in Sockets : t # s => wire'[t] = wire[t]
  BY <1>1, SocketTyped
<1>3. RowsPaired'
  <2> SUFFICES ASSUME Cardinality(Relays) = 1
               PROVE  /\ \A a \in Visitors : (Net(a) >= Cardinality(Owing(a)))'
                      /\ \A r \in Relays : relay'[r] # "starting"
    BY DEF RowsPaired
  <2>1. \A r \in Relays : relay'[r] # "starting"
    BY SocketMeansUp DEF SocketMoves
  <2>2. ASSUME NEW a \in Visitors
        PROVE  (Net(a) >= Cardinality(Owing(a)))'
    <3>1. Owing(a)' \subseteq Owing(a)
      BY <1>2 DEF Owing, Owes, SocketMoves
    <3>2. IsFiniteSet(Owing(a)) /\ Cardinality(Owing(a)) \in Nat
      BY OwingFinite
    <3>3. PICK n : n = Cardinality(Owing(a)')
      OBVIOUS
    <3>4. n \in Nat /\ n <= Cardinality(Owing(a))
      BY <3>1, <3>2, <3>3, FS_Subset, FS_CardinalityType
    <3>5. Net(a) >= Cardinality(Owing(a)) /\ Net(a) \in Int
      BY DEF AttendIInv, RowsPaired, AttendTypeOK, Net
    <3>6. Net(a)' = Net(a)
      BY DEF Net
    <3> QED BY <3>2, <3>3, <3>4, <3>5, <3>6
  <2> QED BY <2>1, <2>2
<1> QED BY <1>2, <1>3 DEF AttendIInv

LEMMA QuietSteps ==
  ASSUME AttendanceAssumption, AttendIInv, NEW s \in Sockets,
         Accept(s) \/ JoinFails(s) \/ AttachListener(s) \/ DieUnheard(s) \/ BeginLeave(s)
  PROVE  AttendIInv'
<1>1. wire[s] \in Wires /\ wire \in [Sockets -> Wires]
      /\ (wire[s] # NoWire => relay[wire[s].on] = "up")
  BY DEF AttendIInv, AttendTypeOK
<1>2. UNCHANGED <<relay, surplus, joined, left>>
  BY DEF Accept, JoinFails, AttachListener, DieUnheard, BeginLeave
<1>3. CASE Accept(s)
  <2>1. PICK r \in Relays, a \in Visitors :
            /\ relay[r] = "up"
            /\ wire' = [wire EXCEPT ![s] = [state |-> "registered", on |-> r, by |-> a]]
    BY <1>3 DEF Accept
  <2>2. PICK w : w = [state |-> "registered", on |-> r, by |-> a]
    OBVIOUS
  <2>3. w \in Wires /\ ~Owes(w) /\ w.on = r
    BY <2>2 DEF Wires, WireRow, WireStates, Owes
  <2>4. wire[s] = NoWire
    BY <1>3 DEF Accept
  <2>5. SocketMoves(s, w)
    BY <1>2, <2>1, <2>2, <2>3, <2>4 DEF SocketMoves
  <2> QED BY <1>2, <2>1, <2>3, <2>5, QuietStep
<1>4. CASE JoinFails(s) \/ DieUnheard(s)
  <2>1. wire[s] # NoWire
    BY <1>4 DEF JoinFails, DieUnheard, NoWire
  <2>2. SocketMoves(s, NoWire) /\ ~Owes(NoWire)
    BY <1>2, <1>4 DEF SocketMoves, JoinFails, DieUnheard, Wires, Owes, NoWire
  <2> QED BY <1>2, <2>1, <2>2, QuietStep
<1>5. CASE AttachListener(s) \/ BeginLeave(s)
  <2>1. wire[s] # NoWire /\ Owes(wire[s])
    BY <1>5 DEF AttachListener, BeginLeave, NoWire, Owes
  <2>2. PICK v \in WireRow : v = wire[s]
    BY <1>1, <2>1 DEF Wires
  <2>3. PICK x \in {"live", "leaving"} : wire' = [wire EXCEPT ![s] = [v EXCEPT !.state = x]]
    BY <1>5, <2>2 DEF AttachListener, BeginLeave
  <2>4. PICK w : w = [v EXCEPT !.state = x]
    OBVIOUS
  <2>5. w \in WireRow /\ w.on = v.on /\ w.by = v.by /\ w.state = x
    BY <2>4 DEF WireRow, WireStates
  <2>6. w # NoWire
    BY <2>5 DEF NoWire
  <2>7. SocketMoves(s, w)
    BY <1>1, <1>2, <2>1, <2>2, <2>3, <2>4, <2>5 DEF SocketMoves, Wires
  <2> QED BY <1>2, <2>1, <2>6, <2>7, QuietStep
<1> QED BY <1>3, <1>4, <1>5

(* A row is written with the socket that owes it, or no longer does.       *)
LEMMA JoinedStep ==
  ASSUME AttendanceAssumption, AttendIInv, NEW s \in Sockets, WriteJoined(s)
  PROVE  AttendIInv'
<1>1. wire[s] \in Wires /\ wire \in [Sockets -> Wires] /\ wire[s] # NoWire
  BY DEF AttendIInv, AttendTypeOK, WriteJoined, NoWire
<1>2. PICK v \in WireRow : v = wire[s] /\ v.state = "registered" /\ relay[v.on] = "up"
  BY <1>1 DEF Wires, WriteJoined, AttendIInv, AttendTypeOK
<1>3. PICK b \in Visitors : b = v.by
  BY DEF WireRow
<1>4. PICK w : w = [v EXCEPT !.state = "deaf"]
  OBVIOUS
<1>5. w \in WireRow /\ w.on = v.on /\ w.by = b /\ w.state = "deaf"
  BY <1>3, <1>4 DEF WireRow, WireStates
<1>6. SocketMoves(s, w)
  BY <1>2, <1>3, <1>4, <1>5 DEF SocketMoves, Wires, WriteJoined
<1>7. /\ joined' = [joined EXCEPT ![b] = joined[b] + 1] /\ left' = left
      /\ joined \in [Visitors -> Nat] /\ left \in [Visitors -> Nat]
  BY <1>2, <1>3 DEF WriteJoined, AttendIInv, AttendTypeOK
<1>8. joined' \in [Visitors -> Nat] /\ left' \in [Visitors -> Nat]
  BY <1>7
<1>9. /\ AttendTypeOK' /\ wire'[s] = w
      /\ \A t \in Sockets : t # s => wire'[t] = wire[t]
  BY <1>6, <1>8, SocketTyped
<1>10. RowsPaired'
  <2> SUFFICES ASSUME Cardinality(Relays) = 1
               PROVE  /\ \A a \in Visitors : (Net(a) >= Cardinality(Owing(a)))'
                      /\ \A r \in Relays : relay'[r] # "starting"
    BY DEF RowsPaired
  <2>1. \A r \in Relays : relay'[r] # "starting"
    BY <1>1, SocketMeansUp DEF WriteJoined
  <2>2. ASSUME NEW a \in Visitors
        PROVE  (Net(a) >= Cardinality(Owing(a)))'
    <3>1. IsFiniteSet(Owing(a)) /\ Cardinality(Owing(a)) \in Nat
      BY OwingFinite
    <3>2. PICK k, n : k = Net(a) /\ n = Net(a)'
      OBVIOUS
    <3>3. /\ k >= Cardinality(Owing(a)) /\ k \in Int
      BY <1>7, <3>2 DEF AttendIInv, RowsPaired, Net
    <3>4. CASE a = b
      <4>1. n = k + 1
        BY <1>7, <3>2, <3>4 DEF Net
      <4>2. Owing(a)' = Owing(a) \cup {s}
        BY <1>5, <1>9, <3>4 DEF Owing
      <4>3. PICK m : m = Cardinality(Owing(a)')
        OBVIOUS
      <4>4. m = Cardinality(Owing(a)) \/ m = Cardinality(Owing(a)) + 1
        BY <3>1, <4>2, <4>3, FS_AddElement
      <4> QED BY <3>1, <3>2, <3>3, <4>1, <4>3, <4>4
    <3>5. CASE a # b
      <4>1. n = k
        BY <1>7, <3>2, <3>5 DEF Net
      <4>2. Owing(a)' = Owing(a)
        BY <1>2, <1>3, <1>5, <1>9, <3>5 DEF Owing
      <4> QED BY <3>1, <3>2, <3>3, <4>1, <4>2
    <3> QED BY <3>4, <3>5
  <2> QED BY <2>1, <2>2
<1> QED BY <1>9, <1>10 DEF AttendIInv

LEMMA LeftStep ==
  ASSUME AttendanceAssumption, AttendIInv, NEW s \in Sockets, WriteLeft(s)
  PROVE  AttendIInv'
<1>1. wire[s] \in Wires /\ wire \in [Sockets -> Wires] /\ wire[s] # NoWire
  BY DEF AttendIInv, AttendTypeOK, WriteLeft, NoWire
<1>2. PICK v \in WireRow : v = wire[s] /\ v.state = "leaving"
  BY <1>1 DEF Wires, WriteLeft
<1>3. PICK b \in Visitors : b = v.by
  BY DEF WireRow
<1>4. SocketMoves(s, NoWire) /\ ~Owes(NoWire)
  BY DEF SocketMoves, Wires, WriteLeft, NoWire, Owes
<1>5. /\ left' \in {left, [left EXCEPT ![b] = left[b] + 1]} /\ joined' = joined
      /\ joined \in [Visitors -> Nat] /\ left \in [Visitors -> Nat]
  BY <1>2, <1>3 DEF WriteLeft, AttendIInv, AttendTypeOK
<1>6. joined' \in [Visitors -> Nat] /\ left' \in [Visitors -> Nat]
  BY <1>5
<1>7. /\ AttendTypeOK' /\ wire'[s] = NoWire
      /\ \A t \in Sockets : t # s => wire'[t] = wire[t]
  BY <1>4, <1>6, SocketTyped
<1>8. RowsPaired'
  <2> SUFFICES ASSUME Cardinality(Relays) = 1
               PROVE  /\ \A a \in Visitors : (Net(a) >= Cardinality(Owing(a)))'
                      /\ \A r \in Relays : relay'[r] # "starting"
    BY DEF RowsPaired
  <2>1. \A r \in Relays : relay'[r] # "starting"
    BY <1>1, SocketMeansUp DEF WriteLeft
  <2>2. ASSUME NEW a \in Visitors
        PROVE  (Net(a) >= Cardinality(Owing(a)))'
    <3>1. IsFiniteSet(Owing(a)) /\ Cardinality(Owing(a)) \in Nat
      BY OwingFinite
    <3>2. PICK k, n : k = Net(a) /\ n = Net(a)'
      OBVIOUS
    <3>3. /\ k >= Cardinality(Owing(a)) /\ k \in Int
      BY <1>5, <3>2 DEF AttendIInv, RowsPaired, Net
    <3>4. Owing(a)' = Owing(a) \ {s}
      BY <1>7 DEF Owing, NoWire
    <3>5. CASE a = b
      <4>1. n >= k - 1 /\ n \in Int
        BY <1>5, <3>2, <3>5 DEF Net
      <4>2. s \in Owing(a)
        BY <1>2, <1>3, <3>5 DEF Owing
      <4>3. Cardinality(Owing(a)') = Cardinality(Owing(a)) - 1
        BY <3>1, <3>4, <4>2, FS_RemoveElement
      <4> QED BY <3>1, <3>2, <3>3, <4>1, <4>3
    <3>6. CASE a # b
      <4>1. n = k
        BY <1>5, <3>2, <3>6 DEF Net
      <4>2. s \notin Owing(a)
        BY <1>2, <1>3, <3>6 DEF Owing
      <4>3. Owing(a)' = Owing(a)
        BY <3>4, <4>2
      <4> QED BY <3>1, <3>2, <3>3, <4>1, <4>3
    <3> QED BY <3>5, <3>6
  <2> QED BY <2>1, <2>2
<1> QED BY <1>7, <1>8 DEF AttendIInv

(* A process starts, writes what it found missing, listens, and dies.      *)
LEMMA StartProcessStep ==
  ASSUME AttendanceAssumption, AttendIInv, NEW r \in Relays, StartProcess(r)
  PROVE  AttendIInv'
<1>1. \A a \in Visitors : Net(a) \in Int /\ Unpaired[a] = IF Net(a) > 0 THEN Net(a) ELSE 0
  BY DEF AttendIInv, AttendTypeOK, Net, Unpaired
<1>2. Unpaired \in [Visitors -> Nat]
  BY <1>1 DEF Unpaired
<1>3. /\ relay' \in [Relays -> {"down", "starting", "up"}]
      /\ surplus' \in [Relays -> [Visitors -> Nat]] /\ surplus'[r] = Unpaired
      /\ \A q \in Relays : q # r => relay'[q] = relay[q] /\ surplus'[q] = surplus[q]
      /\ relay[r] = "down" /\ UNCHANGED <<wire, joined, left>>
  BY <1>2 DEF StartProcess, AttendIInv, AttendTypeOK
<1>4. \A s \in Sockets : wire[s] # NoWire => relay'[wire[s].on] = "up"
  <2> SUFFICES ASSUME NEW s \in Sockets, wire[s] # NoWire
               PROVE  relay'[wire[s].on] = "up"
    OBVIOUS
  <2>1. wire[s] \in WireRow /\ relay[wire[s].on] = "up"
    BY DEF AttendIInv, AttendTypeOK, Wires
  <2>2. wire[s].on \in Relays
    BY <2>1 DEF WireRow
  <2> QED BY <1>3, <2>1, <2>2
<1>5. AttendTypeOK'
  BY <1>3, <1>4 DEF AttendIInv, AttendTypeOK
<1>6. RowsPaired'
  <2> SUFFICES ASSUME Cardinality(Relays) = 1
               PROVE  /\ \A a \in Visitors : (Net(a) >= Cardinality(Owing(a)))'
                      /\ \A q \in Relays : \A a \in Visitors : surplus'[q][a] = Net(a)'
    BY DEF RowsPaired
  <2>1. \A a \in Visitors : Net(a) >= Cardinality(Owing(a))
    BY DEF AttendIInv, RowsPaired
  <2>2. \A a \in Visitors : Net(a)' = Net(a) /\ Owing(a)' = Owing(a)
    BY <1>3 DEF Net, Owing
  <2>3. \A a \in Visitors : Unpaired[a] = Net(a)
    <3> SUFFICES ASSUME NEW a \in Visitors
                 PROVE  Unpaired[a] = Net(a)
      OBVIOUS
    <3>1. Cardinality(Owing(a)) \in Nat
      BY OwingFinite
    <3> QED BY <1>1, <2>1, <3>1
  <2>4. \A q \in Relays : q = r
    BY OneProcess
  <2> QED BY <1>3, <2>1, <2>2, <2>3, <2>4
<1> QED BY <1>5, <1>6 DEF AttendIInv

LEMMA SyntheticStep ==
  ASSUME AttendanceAssumption, AttendIInv, NEW r \in Relays, WriteSynthetic(r)
  PROVE  AttendIInv'
<1>1. PICK b \in Visitors :
          /\ surplus[r][b] > 0
          /\ surplus' = [surplus EXCEPT ![r] = [surplus[r] EXCEPT ![b] = surplus[r][b] - 1]]
          /\ left' = [left EXCEPT ![b] = left[b] + 1]
  BY DEF WriteSynthetic
<1>2. UNCHANGED <<relay, wire, joined>> /\ relay[r] = "starting"
  BY DEF WriteSynthetic
<1>3. /\ surplus \in [Relays -> [Visitors -> Nat]]
      /\ left \in [Visitors -> Nat] /\ joined \in [Visitors -> Nat]
  BY DEF AttendIInv, AttendTypeOK
<1>4. PICK f \in [Visitors -> Nat] : f = surplus[r]
  BY <1>3
<1>5. PICK g : g = [f EXCEPT ![b] = f[b] - 1]
  OBVIOUS
<1>6. g \in [Visitors -> Nat] /\ g[b] = f[b] - 1 /\ \A a \in Visitors : a # b => g[a] = f[a]
  BY <1>1, <1>4, <1>5
<1>7. surplus' = [surplus EXCEPT ![r] = g]
  BY <1>1, <1>4, <1>5
<1>8. /\ surplus' \in [Relays -> [Visitors -> Nat]] /\ surplus'[r] = g
      /\ left' \in [Visitors -> Nat]
  BY <1>1, <1>3, <1>6, <1>7
<1>9. AttendTypeOK'
  BY <1>2, <1>8 DEF AttendIInv, AttendTypeOK
<1>10. RowsPaired'
  <2> SUFFICES ASSUME Cardinality(Relays) = 1
               PROVE  /\ \A a \in Visitors : (Net(a) >= Cardinality(Owing(a)))'
                      /\ \A q \in Relays : \A a \in Visitors : surplus'[q][a] = Net(a)'
    BY DEF RowsPaired
  <2>1. \A a \in Visitors : f[a] = Net(a)
    BY <1>2, <1>4 DEF AttendIInv, RowsPaired
  <2>2. \A s \in Sockets : wire[s] = NoWire
    BY <1>2, NobodyYet DEF AttendIInv
  <2>3. ASSUME NEW a \in Visitors
        PROVE  g[a] = Net(a)' /\ (Net(a) >= Cardinality(Owing(a)))'
    <3>1. Owing(a)' = {}
      BY <1>2, <2>2 DEF Owing, NoWire
    <3>2. Cardinality(Owing(a)') = 0
      BY <3>1, FS_EmptySet
    <3>3. PICK k, n : k = Net(a) /\ n = Net(a)'
      OBVIOUS
    <3>4. k \in Int /\ n = IF a = b THEN k - 1 ELSE k
      <4>1. k = joined[a] - left[a] /\ n = joined[a] - left'[a]
        BY <1>2, <3>3 DEF Net
      <4>2. left'[a] = IF a = b THEN left[a] + 1 ELSE left[a]
        BY <1>1, <1>3
      <4>3. joined[a] \in Nat /\ left[a] \in Nat
        BY <1>3
      <4> QED BY <4>1, <4>2, <4>3
    <3>5. g[a] = n /\ n \in Nat
      BY <1>6, <2>1, <3>3, <3>4
    <3> QED BY <3>2, <3>3, <3>5
  <2>4. \A q \in Relays : q = r
    BY OneProcess
  <2> QED BY <1>8, <2>3, <2>4
<1> QED BY <1>9, <1>10 DEF AttendIInv

LEMMA UpDownStep ==
  ASSUME AttendanceAssumption, AttendIInv, NEW r \in Relays,
         Listen(r) \/ GiveUp(r) \/ DieProcess(r)
  PROVE  AttendIInv'
<1>1. /\ relay' \in [Relays -> {"down", "starting", "up"}] /\ relay'[r] # "starting"
      /\ \A q \in Relays : q # r => relay'[q] = relay[q]
      /\ surplus' \in [Relays -> [Visitors -> Nat]]
      /\ joined' = joined /\ left' = left
  <2>1. /\ relay \in [Relays -> {"down", "starting", "up"}]
        /\ surplus \in [Relays -> [Visitors -> Nat]]
    BY DEF AttendIInv, AttendTypeOK
  <2>2. PICK x \in {"down", "up"} : relay' = [relay EXCEPT ![r] = x]
    BY DEF Listen, GiveUp, DieProcess
  <2>3. PICK f : f = [a \in Visitors |-> 0]
    OBVIOUS
  <2>4. f \in [Visitors -> Nat]
    BY <2>3
  <2>5. surplus' = surplus \/ surplus' = [surplus EXCEPT ![r] = f]
    BY <2>3 DEF Listen, GiveUp, DieProcess
  <2>6. joined' = joined /\ left' = left
    BY DEF Listen, GiveUp, DieProcess
  <2>7. surplus' \in [Relays -> [Visitors -> Nat]]
    BY <2>1, <2>4, <2>5
  <2> QED BY <2>1, <2>2, <2>6, <2>7
<1>2. wire \in [Sockets -> Wires]
      /\ \A s \in Sockets : wire[s] # NoWire =>
             wire[s] \in WireRow /\ wire[s].on \in Relays /\ relay[wire[s].on] = "up"
  BY DEF AttendIInv, AttendTypeOK, Wires, WireRow
<1>3. /\ wire' \in [Sockets -> Wires]
      /\ \A s \in Sockets : wire'[s] \in {wire[s], NoWire}
      /\ \A s \in Sockets : wire'[s] # NoWire => relay'[wire'[s].on] = "up"
  <2>1. CASE Listen(r) \/ GiveUp(r)
    <3>1. wire' = wire /\ relay'[r] = "up"
      BY <2>1 DEF Listen, GiveUp, AttendIInv, AttendTypeOK
    <3> QED BY <1>1, <1>2, <3>1
  <2>2. CASE DieProcess(r)
    <3>1. \A s \in Sockets :
              wire'[s] = IF wire[s] # NoWire /\ wire[s].on = r THEN NoWire ELSE wire[s]
      BY <2>2 DEF DieProcess
    <3>2. wire' \in [Sockets -> Wires]
      BY <1>2, <2>2, <3>1 DEF DieProcess, Wires
    <3> QED BY <1>1, <1>2, <3>1, <3>2
  <2> QED BY <2>1, <2>2
<1>4. AttendTypeOK'
  BY <1>1, <1>3 DEF AttendIInv, AttendTypeOK
<1>5. RowsPaired'
  <2> SUFFICES ASSUME Cardinality(Relays) = 1
               PROVE  /\ \A a \in Visitors : (Net(a) >= Cardinality(Owing(a)))'
                      /\ \A q \in Relays : relay'[q] # "starting"
    BY DEF RowsPaired
  <2>1. \A q \in Relays : relay'[q] # "starting"
    BY <1>1, OneProcess
  <2>2. ASSUME NEW a \in Visitors
        PROVE  (Net(a) >= Cardinality(Owing(a)))'
    <3>1. Owing(a)' \subseteq Owing(a)
      BY <1>3 DEF Owing, NoWire
    <3>2. IsFiniteSet(Owing(a)) /\ Cardinality(Owing(a)) \in Nat
      BY OwingFinite
    <3>3. PICK n : n = Cardinality(Owing(a)')
      OBVIOUS
    <3>4. n \in Nat /\ n <= Cardinality(Owing(a))
      BY <3>1, <3>2, <3>3, FS_Subset, FS_CardinalityType
    <3>5. Net(a) >= Cardinality(Owing(a)) /\ Net(a) \in Int
      BY DEF AttendIInv, RowsPaired, AttendTypeOK, Net
    <3>6. Net(a)' = Net(a)
      BY <1>1 DEF Net
    <3> QED BY <3>2, <3>3, <3>4, <3>5, <3>6
  <2> QED BY <2>1, <2>2
<1> QED BY <1>4, <1>5 DEF AttendIInv

LEMMA AttendStepIInv == AttendanceAssumption /\ AttendIInv /\ [AttendNext]_attendVars => AttendIInv'
<1> SUFFICES ASSUME AttendanceAssumption, AttendIInv, [AttendNext]_attendVars
             PROVE  AttendIInv'
  OBVIOUS
<1>1. CASE UNCHANGED attendVars
  BY <1>1 DEF attendVars, AttendIInv, AttendTypeOK, RowsPaired, Owing, Net
<1>2. CASE AttendNext
  BY <1>2, QuietSteps, JoinedStep, LeftStep, StartProcessStep, SyntheticStep, UpDownStep
     DEF AttendNext
<1> QED BY <1>1, <1>2

LEMMA AttendSuffices == AttendanceAssumption /\ AttendIInv => AttendInv
<1> SUFFICES ASSUME AttendanceAssumption, AttendIInv, Cardinality(Relays) = 1,
                    NEW a \in Visitors
             PROVE  Net(a) >= Cardinality(Present(a))
  BY DEF AttendIInv, AttendInv, PresentAreShown
<1>1. Present(a) \subseteq Owing(a)
  BY DEF Present, Owing
<1>2. IsFiniteSet(Owing(a)) /\ Cardinality(Owing(a)) \in Nat
  BY OwingFinite
<1>3. Cardinality(Present(a)) <= Cardinality(Owing(a)) /\ Cardinality(Present(a)) \in Nat
  BY <1>1, <1>2, FS_Subset, FS_CardinalityType
<1>4. Net(a) >= Cardinality(Owing(a)) /\ Net(a) \in Int
  BY DEF AttendIInv, RowsPaired, AttendTypeOK, Net
<1> QED BY <1>2, <1>3, <1>4

(* With one process, nobody who is connected is shown to have left.        *)
THEOREM AttendanceSound == AttendSpec => []AttendInv
BY AttendInitIInv, AttendStepIInv, AttendSuffices, AttendanceAssumption, PTL DEF AttendSpec

(* A process that starts without an error leaves nobody shown who is not   *)
(* there, whatever died before it.                                         *)
THEOREM StartsCleared == AttendSpec => StartClears
<1>1. AttendSpec => []AttendIInv
  BY AttendInitIInv, AttendStepIInv, AttendanceAssumption, PTL DEF AttendSpec
<1>2. AttendIInv => [\A r \in Relays :
          (/\ Cardinality(Relays) = 1
           /\ relay[r] = "starting" /\ relay'[r] = "up"
           /\ \A a \in Visitors : surplus[r][a] = 0)
          => \A a \in Visitors : Net(a) = 0]_attendVars
  BY DEF AttendIInv, RowsPaired
<1> QED BY <1>1, <1>2, PTL DEF StartClears
===============================================================================
