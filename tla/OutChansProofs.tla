--------------------------- MODULE OutChansProofs ---------------------------
(***************************************************************************)
(* Proofs about OutChans, for any streams, numbers of values and           *)
(* capacities.                                                             *)
(*                                                                         *)
(* TypeOK and TablesAgree are proved together: a value is only well typed  *)
(* because the two tables of the forwarder have the same length, and ids   *)
(* stay within Ids because each is given once.  What makes TablesAgree     *)
(* inductive is that a response on its way names the id of its stream      *)
(* (Named), and that an id, once given, is not changed (Numbered).         *)
(***************************************************************************)
EXTENDS OutChans, SequenceTheorems, FiniteSetTheorems, FunctionTheorems, TLAPS

(* Ids are given once, one for each channel that is registered.            *)
Numbered ==
  /\ chanCtr = Cardinality({s \in Streams : chid[s] # 0})
  /\ \A s \in Streams : hpc[s] \in {"idle", "ran"} <=> chid[s] = 0
  /\ \A s \in Streams : cpc[s] = "idle" => hpc[s] = "idle"

(* A response names its stream's id.                                       *)
NamesIts(m) == m.kind = "response" => chid[m.req] = m.id

Named ==
  /\ fpc = "put" => NamesIts(fhold)
  /\ \A i \in 1 .. Len(writeQ) : NamesIts(writeQ[i])
  /\ rpc = "push" => NamesIts(rhold)
  /\ \A i \in 1 .. Len(frames) : NamesIts(frames[i])

TableInv == TypeOK /\ Numbered /\ Named /\ TablesAgree

-----------------------------------------------------------------------------
(* Messages, ids and queues                                                *)

LEMMA IdsAre == Cardinality(Streams) \in Nat /\ Ids \subseteq Nat \ {0}
  BY OutChansAssumption, FS_CardinalityType DEF Ids

LEMMA MsgsAre ==
  /\ \A s \in Streams, id \in Ids : Response(s, id) \in Msgs
  /\ \A v \in Values, id \in Ids : Value(id, v) \in Msgs
  /\ \A id \in Ids : Closing(id) \in Msgs
  /\ \A m \in Msgs : /\ m.kind \in {"response", "value", "close"} /\ m.id \in Ids
                     /\ m.kind = "response" => m.req \in Streams
                     /\ m.kind = "value" => m.data \in Values
<1>1. \A s \in Streams, id \in Ids : Response(s, id) \in Msgs
  BY DEF Response, Msgs
<1>2. \A v \in Values, id \in Ids : Value(id, v) \in Msgs
  BY DEF Value, Msgs
<1>3. \A id \in Ids : Closing(id) \in Msgs
  BY DEF Closing, Msgs
<1>4. \A m \in Msgs : /\ m.kind \in {"response", "value", "close"} /\ m.id \in Ids
                      /\ m.kind = "response" => m.req \in Streams
                      /\ m.kind = "value" => m.data \in Values
  BY DEF Msgs
<1> QED  BY <1>1, <1>2, <1>3, <1>4

LEMMA AppendTo ==
  ASSUME NEW S, NEW q \in Seq(S), NEW x \in S
  PROVE  /\ Append(q, x) \in Seq(S) /\ Len(Append(q, x)) = Len(q) + 1 /\ Len(q) \in Nat
         /\ Append(q, x)[Len(q) + 1] = x
         /\ \A i \in 1 .. Len(q) : Append(q, x)[i] = q[i]
  BY AppendProperties

LEMMA TailOf ==
  ASSUME NEW S, NEW q \in Seq(S), q # <<>>
  PROVE  /\ Head(q) \in S /\ Tail(q) \in Seq(S) /\ Len(Tail(q)) = Len(q) - 1
         /\ Len(q) \in Nat \ {0} /\ Head(q) = q[1]
         /\ \A i \in 1 .. Len(q) - 1 : Tail(q)[i] = q[i + 1]
  BY HeadTailProperties

(* The last element in the place of the i-th.                              *)
LEMMA SwapOutOf ==
  ASSUME NEW S, NEW q \in Seq(S), NEW i \in 1 .. Len(q)
  PROVE  /\ SwapOut(q, i) \in Seq(S) /\ Len(SwapOut(q, i)) = Len(q) - 1
         /\ \A j \in 1 .. Len(q) - 1 : SwapOut(q, i)[j] = IF j = i THEN q[Len(q)] ELSE q[j]
<1> DEFINE n == Len(q)
           r == [q EXCEPT ![i] = q[n]]
<1>1. n \in Nat /\ n \in 1 .. n /\ n >= 1 /\ q[n] \in S
  BY ElementOfSeq
<1>2. r \in Seq(S) /\ Len(r) = n /\ \A j \in 1 .. n : r[j] = IF j = i THEN q[n] ELSE q[j]
  BY <1>1, ExceptSeq
<1> HIDE DEF r
<1>3. /\ SubSeq(r, 1, n - 1) \in Seq(S) /\ Len(SubSeq(r, 1, n - 1)) = n - 1
      /\ \A j \in 1 .. n - 1 : SubSeq(r, 1, n - 1)[j] = r[j]
  <2>1. \A j \in 1 .. n - 1 : j \in 1 .. n /\ r[j] \in S
    BY <1>1, <1>2, ElementOfSeq
  <2> QED  BY <1>1, <1>2, <2>1, SubSeqProperties
<1>4. SwapOut(q, i) = SubSeq(r, 1, n - 1)
  BY DEF SwapOut, r
<1> QED  BY <1>1, <1>2, <1>3, <1>4

-----------------------------------------------------------------------------
(* What a step leaves alone                                                *)

LEMMA TypesStay ==
  ASSUME TypeOK
  PROVE  /\ UNCHANGED srcVars => SrcTypes'
         /\ UNCHANGED fwdVars => FwdTypes'
         /\ UNCHANGED <<writeQ, srvExit, conn>> => NetTypes'
         /\ UNCHANGED callVars => CallTypes'
         /\ UNCHANGED <<handlers, frames>> => QueueTypes'
         /\ UNCHANGED rVars => RTypes'
         /\ UNCHANGED wVars => WTypes'
         /\ UNCHANGED pumpVars => PumpTypes'
         /\ UNCHANGED <<ctxDone, crashed>> => ctxDone' \in [Streams -> BOOLEAN] /\ crashed' \in BOOLEAN
<1>1. UNCHANGED srcVars => SrcTypes'
  BY DEF TypeOK, SrcTypes, srcVars
<1>2. UNCHANGED fwdVars => FwdTypes'
  BY DEF TypeOK, FwdTypes, fwdVars
<1>3. UNCHANGED <<writeQ, srvExit, conn>> => NetTypes'
  BY DEF TypeOK, NetTypes
<1>4. UNCHANGED callVars => CallTypes'
  BY DEF TypeOK, CallTypes, callVars
<1>5. UNCHANGED <<handlers, frames>> => QueueTypes'
  BY DEF TypeOK, QueueTypes
<1>6. UNCHANGED rVars => RTypes'
  BY DEF TypeOK, RTypes, rVars
<1>7. UNCHANGED wVars => WTypes'
  BY DEF TypeOK, WTypes, wVars
<1>8. UNCHANGED pumpVars => PumpTypes'
  BY DEF TypeOK, PumpTypes, pumpVars
<1>9. UNCHANGED <<ctxDone, crashed>> => ctxDone' \in [Streams -> BOOLEAN] /\ crashed' \in BOOLEAN
  BY DEF TypeOK
<1> QED  BY <1>1, <1>2, <1>3, <1>4, <1>5, <1>6, <1>7, <1>8, <1>9

LEMMA NumberedStays ==
  ASSUME Numbered, UNCHANGED <<hpc, chid, chanCtr>>,
         \A s \in Streams : cpc'[s] = "idle" => cpc[s] = "idle"
  PROVE  Numbered'
  BY DEF Numbered

LEMMA TablesStay ==
  ASSUME TablesAgree, UNCHANGED <<chid, cases, caseToID, handlers>>
  PROVE  TablesAgree'
  BY DEF TablesAgree, Registered

LEMMA NamedStays ==
  ASSUME Named, UNCHANGED <<chid, writeQ, frames>>,
         fpc' = "put" => fpc = "put" /\ fhold' = fhold,
         rpc' = "push" => rpc = "push" /\ rhold' = rhold
  PROVE  Named'
  BY DEF Named, NamesIts

-----------------------------------------------------------------------------
(* The program and the network                                             *)

LEMMA EnvironmentKeeps ==
  ASSUME TableInv, Environment
  PROVE  TableInv'
<1> USE DEF TableInv
<1>1. ASSUME NEW s \in Streams, Call(s) PROVE TableInv'
  <2>1. TypeOK'
    <3>1. SrcTypes' /\ CallTypes' /\ WTypes' /\ NetTypes'
      BY <1>1 DEF Call, TypeOK, SrcTypes, CallTypes, WTypes, NetTypes, wVars
    <3> QED  BY <1>1, <3>1, TypesStay DEF Call, TypeOK, progVars
  <2>2. Numbered'
    <3>1. /\ hpc[s] = "idle" /\ hpc'[s] = "ran" /\ cpc'[s] = "waiting"
          /\ \A t \in Streams \ {s} : hpc'[t] = hpc[t] /\ cpc'[t] = cpc[t]
          /\ UNCHANGED <<chid, chanCtr>>
      BY <1>1 DEF Call, Numbered, TypeOK, SrcTypes, CallTypes
    <3> QED  BY <3>1 DEF Numbered
  <2>3. Named' /\ TablesAgree'
    BY <1>1, NamedStays, TablesStay DEF Call, fwdVars, rVars
  <2> QED  BY <2>1, <2>2, <2>3
<1>2. ASSUME NEW s \in Streams, SourceCloses(s) PROVE TableInv'
  <2>1. UNCHANGED <<fwdVars, netVars, hpc, chid, chanCtr, taken>>
    BY <1>2 DEF SourceCloses
  <2>2. SrcTypes'
    BY <1>2 DEF SourceCloses, TypeOK, SrcTypes
  <2>3. TypeOK'
    BY <2>1, <2>2, TypesStay DEF TypeOK, netVars, clientVars, loopVars, progVars
  <2>4. Numbered' /\ Named' /\ TablesAgree'
    BY <2>1, NumberedStays, NamedStays, TablesStay
    DEF fwdVars, netVars, clientVars, loopVars, rVars, callVars
  <2> QED  BY <2>3, <2>4
<1>3. ASSUME NEW s \in Streams, CtxEnds(s) PROVE TableInv'
  <2>1. UNCHANGED <<farVars, loopVars, pumpVars, crashed>> /\ ctxDone' \in [Streams -> BOOLEAN]
    BY <1>3 DEF CtxEnds, TypeOK
  <2>2. TypeOK'
    BY <2>1, TypesStay DEF TypeOK, farVars, serverVars, loopVars
  <2>3. Numbered' /\ Named' /\ TablesAgree'
    BY <2>1, NumberedStays, NamedStays, TablesStay
    DEF farVars, serverVars, srcVars, fwdVars, loopVars, rVars, callVars
  <2> QED  BY <2>2, <2>3
<1>4. CASE ConnEnds
  <2>1. UNCHANGED <<serverVars, writeQ, clientVars>> /\ conn' = "down"
    BY <1>4 DEF ConnEnds
  <2>2. NetTypes'
    BY <2>1 DEF TypeOK, NetTypes, serverVars
  <2>3. TypeOK'
    BY <2>1, <2>2, TypesStay DEF TypeOK, serverVars, clientVars, loopVars, progVars
  <2>4. Numbered' /\ Named' /\ TablesAgree'
    BY <2>1, NumberedStays, NamedStays, TablesStay
    DEF serverVars, srcVars, fwdVars, clientVars, loopVars, rVars, callVars
  <2> QED  BY <2>3, <2>4
<1> QED  BY <1>1, <1>2, <1>3, <1>4 DEF Environment

-----------------------------------------------------------------------------
(* The server                                                              *)

(* A new id: it is one of Ids, and nobody's yet.                           *)
LEMMA HandleChanOutKeeps ==
  ASSUME TableInv, NEW s \in Streams, HandleChanOut(s)
  PROVE  TableInv'
<1> USE DEF TableInv
<1> DEFINE Given == {t \in Streams : chid[t] # 0}
<1>1. /\ hpc[s] = "ran" /\ hpc' = [hpc EXCEPT ![s] = "registering"]
      /\ chanCtr' = chanCtr + 1 /\ chid' = [chid EXCEPT ![s] = chanCtr + 1]
      /\ fpc' = IF fpc = "off" THEN "select" ELSE fpc
      /\ UNCHANGED <<taken, srcClosed, fhold, cases, caseToID, netVars>>
  BY DEF HandleChanOut
<1>2. chid[s] = 0 /\ s \notin Given
  BY <1>1 DEF Numbered
<1>3. IsFiniteSet(Given) /\ Given \subseteq Streams /\ IsFiniteSet(Given \cup {s})
  <2>1. Given \subseteq Streams /\ IsFiniteSet(Streams)
    BY OutChansAssumption
  <2>2. IsFiniteSet(Given)
    BY <2>1, FS_Subset
  <2> HIDE DEF Given
  <2> QED  BY <2>1, <2>2, FS_AddElement
<1>4. Cardinality(Given \cup {s}) = chanCtr + 1
  <2>1. Cardinality(Given) = chanCtr
    BY DEF Numbered
  <2> HIDE DEF Given
  <2> QED  BY <1>2, <1>3, <2>1, FS_AddElement
<1>5. chanCtr + 1 <= Cardinality(Streams) /\ chanCtr \in Nat
  <2>1. Cardinality(Given \cup {s}) <= Cardinality(Streams)
    <3>1. Given \cup {s} \subseteq Streams /\ IsFiniteSet(Streams)
      BY <1>3, OutChansAssumption
    <3> HIDE DEF Given
    <3> QED  BY <3>1, FS_Subset
  <2>2. chanCtr \in Nat
    BY IdsAre DEF TypeOK, SrcTypes
  <2> QED  BY <1>4, <2>1, <2>2
<1>6. chanCtr + 1 \in Ids /\ chanCtr + 1 \in 0 .. Cardinality(Streams) /\ chanCtr + 1 # 0
  BY <1>5, IdsAre DEF Ids
<1>7. SrcTypes'
  BY <1>1, <1>6 DEF TypeOK, SrcTypes
<1>8. FwdTypes'
  BY <1>1 DEF TypeOK, FwdTypes
<1>9. TypeOK'
  BY <1>1, <1>7, <1>8, TypesStay DEF TypeOK, netVars, clientVars, loopVars, progVars
<1>10. chid'[s] = chanCtr + 1 /\ \A t \in Streams : chid[t] # 0 => chid'[t] = chid[t]
  BY <1>1, <1>2 DEF TypeOK, SrcTypes
<1>11. Numbered'
  <2>1. {t \in Streams : chid'[t] # 0} = Given \cup {s}
    BY <1>1, <1>6 DEF TypeOK, SrcTypes
  <2>2. chanCtr' = Cardinality({t \in Streams : chid'[t] # 0})
    BY <1>1, <1>4, <2>1
  <2>3. \A t \in Streams : hpc'[t] \in {"idle", "ran"} <=> chid'[t] = 0
    BY <1>1, <1>6 DEF Numbered, TypeOK, SrcTypes
  <2>4. \A t \in Streams : cpc'[t] = "idle" => hpc'[t] = "idle"
    BY <1>1 DEF Numbered, TypeOK, SrcTypes, netVars, clientVars, loopVars, callVars
  <2> QED  BY <2>2, <2>3, <2>4 DEF Numbered
<1>12. \A m \in Msgs : NamesIts(m) => NamesIts(m)'
  BY <1>10, MsgsAre, IdsAre DEF NamesIts
<1>13. Named'
  <2>1. UNCHANGED <<fhold, writeQ, rpc, rhold, frames>> /\ (fpc' = "put" => fpc = "put")
    BY <1>1 DEF netVars, clientVars, loopVars, rVars
  <2>2. fpc' = "put" => NamesIts(fhold)'
    BY <1>12, <2>1 DEF Named, TypeOK, FwdTypes
  <2>3. rpc' = "push" => NamesIts(rhold)'
    BY <1>12, <2>1 DEF Named, TypeOK, RTypes
  <2>4. \A i \in 1 .. Len(writeQ') : NamesIts(writeQ[i])'
    <3>1. \A i \in 1 .. Len(writeQ) : writeQ[i] \in Msgs /\ NamesIts(writeQ[i])
      BY ElementOfSeq DEF Named, TypeOK, NetTypes
    <3> QED  BY <1>12, <2>1, <3>1
  <2>5. \A i \in 1 .. Len(frames') : NamesIts(frames[i])'
    <3>1. \A i \in 1 .. Len(frames) : frames[i] \in Msgs /\ NamesIts(frames[i])
      BY ElementOfSeq DEF Named, TypeOK, QueueTypes
    <3> QED  BY <1>12, <2>1, <3>1
  <2> QED  BY <2>2, <2>3, <2>4, <2>5 DEF Named
<1>14. TablesAgree'
  <2>1. \A i \in 1 .. Len(cases) : cases[i] \in Streams /\ caseToID[i] \in Ids /\ chid[cases[i]] = caseToID[i]
    BY ElementOfSeq DEF TablesAgree, TypeOK, FwdTypes
  <2>2. \A i \in 1 .. Len(cases) : chid'[cases[i]] = caseToID[i]
    BY <1>10, <2>1, IdsAre
  <2>3. \A i \in Registered : handlers[i] \in Streams /\ chid[handlers[i]] = i /\ i # 0
    BY IdsAre DEF TablesAgree, Registered, TypeOK, QueueTypes
  <2>4. UNCHANGED <<cases, caseToID, handlers>>
    BY <1>1 DEF netVars, clientVars, loopVars
  <2> QED  BY <1>10, <2>2, <2>3, <2>4 DEF TablesAgree, Registered
<1> QED  BY <1>9, <1>11, <1>13, <1>14

(* The forwarder takes a registration.                                     *)
LEMMA FRegisterKeeps ==
  ASSUME TableInv, NEW s \in Streams, FRegister(s)
  PROVE  TableInv'
<1> USE DEF TableInv
<1>1. /\ hpc[s] = "registering" /\ hpc' = [hpc EXCEPT ![s] = "registered"]
      /\ cases' = Append(cases, s) /\ caseToID' = Append(caseToID, chid[s])
      /\ fhold' = Response(s, chid[s]) /\ fpc' = "put"
      /\ UNCHANGED <<chid, chanCtr, taken, srcClosed, netVars>>
  BY DEF FRegister
<1>2. chid[s] \in Ids
  <2>1. chid[s] # 0 /\ chid[s] \in 0 .. Cardinality(Streams)
    BY <1>1 DEF Numbered, TypeOK, SrcTypes
  <2> QED  BY <2>1, IdsAre DEF Ids
<1>3. /\ cases \in Seq(Streams) /\ caseToID \in Seq(Ids) /\ Len(cases) = Len(caseToID)
      /\ \A i \in 1 .. Len(cases) : caseToID[i] = chid[cases[i]]
  BY DEF TypeOK, FwdTypes, TablesAgree
<1>4. /\ cases' \in Seq(Streams) /\ Len(cases') = Len(cases) + 1 /\ Len(cases) \in Nat
      /\ cases'[Len(cases) + 1] = s /\ \A i \in 1 .. Len(cases) : cases'[i] = cases[i]
  BY <1>1, <1>3, AppendTo
<1>5. /\ caseToID' \in Seq(Ids) /\ Len(caseToID') = Len(cases) + 1
      /\ caseToID'[Len(cases) + 1] = chid[s]
      /\ \A i \in 1 .. Len(cases) : caseToID'[i] = caseToID[i]
  BY <1>1, <1>2, <1>3, AppendTo
<1>6. SrcTypes'
  BY <1>1 DEF TypeOK, SrcTypes
<1>7. FwdTypes'
  BY <1>1, <1>2, <1>4, <1>5, MsgsAre DEF FwdTypes
<1>8. TypeOK'
  BY <1>1, <1>6, <1>7, TypesStay DEF TypeOK, netVars, clientVars, loopVars, progVars
<1>9. Numbered'
  BY <1>1 DEF Numbered, TypeOK, SrcTypes, netVars, clientVars, loopVars, callVars
<1>10. Named'
  <2>1. NamesIts(fhold)'
    BY <1>1 DEF NamesIts, Response
  <2> QED  BY <1>1, <2>1 DEF Named, NamesIts, netVars, clientVars, loopVars, rVars
<1>11. TablesAgree'
  <2>1. \A i \in 1 .. Len(cases') : caseToID'[i] = chid[cases'[i]]
    BY <1>3, <1>4, <1>5
  <2> QED  BY <1>1, <1>4, <1>5, <2>1 DEF TablesAgree, Registered, netVars, clientVars, loopVars
<1> QED  BY <1>8, <1>9, <1>10, <1>11


(* It gives up, or nothing but its own state changes.                      *)
LEMMA ServerSmallKeeps ==
  ASSUME TableInv,
         (\E s \in Streams : ChanOutFails(s)) \/ FExit \/ ServerExits \/ ServerWritesInVain
  PROVE  TableInv'
<1> USE DEF TableInv
<1>1. ASSUME NEW s \in Streams, ChanOutFails(s) PROVE TableInv'
  <2>1. /\ hpc[s] = "registering" /\ hpc' = [hpc EXCEPT ![s] = "failed"]
        /\ UNCHANGED <<chid, chanCtr, taken, srcClosed, fwdVars, netVars>>
    BY <1>1 DEF ChanOutFails
  <2>2. SrcTypes'
    BY <2>1 DEF TypeOK, SrcTypes
  <2>3. TypeOK'
    BY <2>1, <2>2, TypesStay DEF TypeOK, netVars, clientVars, loopVars, progVars
  <2>4. Numbered'
    BY <2>1 DEF Numbered, TypeOK, SrcTypes, netVars, clientVars, loopVars, callVars
  <2>5. Named' /\ TablesAgree'
    BY <2>1, NamedStays, TablesStay DEF fwdVars, netVars, clientVars, loopVars, rVars
  <2> QED  BY <2>3, <2>4, <2>5
<1>2. CASE FExit
  <2>1. fpc = "select" /\ fpc' = "gone" /\ UNCHANGED <<srcVars, fhold, cases, caseToID, netVars>>
    BY <1>2 DEF FExit
  <2>2. FwdTypes'
    BY <2>1 DEF TypeOK, FwdTypes
  <2>3. TypeOK'
    BY <2>1, <2>2, TypesStay DEF TypeOK, netVars, clientVars, loopVars, progVars
  <2>4. Numbered' /\ Named' /\ TablesAgree'
    BY <2>1, NumberedStays, NamedStays, TablesStay
    DEF srcVars, netVars, clientVars, loopVars, rVars, callVars
  <2> QED  BY <2>3, <2>4
<1>3. CASE ServerExits
  <2>1. srvExit' = TRUE /\ UNCHANGED <<srcVars, fwdVars, writeQ, conn, clientVars>>
    BY <1>3 DEF ServerExits
  <2>2. NetTypes'
    BY <2>1 DEF TypeOK, NetTypes
  <2>3. TypeOK'
    BY <2>1, <2>2, TypesStay DEF TypeOK, clientVars, loopVars, progVars
  <2>4. Numbered' /\ Named' /\ TablesAgree'
    BY <2>1, NumberedStays, NamedStays, TablesStay
    DEF srcVars, fwdVars, clientVars, loopVars, rVars, callVars
  <2> QED  BY <2>3, <2>4
<1>4. CASE ServerWritesInVain
  <2>1. writeQ # <<>> /\ writeQ' = Tail(writeQ) /\ UNCHANGED <<serverVars, conn, clientVars>>
    BY <1>4 DEF ServerWritesInVain
  <2>2. writeQ \in Seq(Msgs) /\ Len(writeQ) <= WriteCap
    BY DEF TypeOK, NetTypes
  <2>3. /\ writeQ' \in Seq(Msgs) /\ Len(writeQ') = Len(writeQ) - 1 /\ Len(writeQ) \in Nat \ {0}
        /\ \A i \in 1 .. Len(writeQ) - 1 : writeQ'[i] = writeQ[i + 1]
    BY <2>1, <2>2, TailOf
  <2>4. NetTypes'
    <3>1. Len(writeQ') <= WriteCap
      BY <2>2, <2>3, OutChansAssumption
    <3> QED  BY <2>1, <2>3, <3>1 DEF TypeOK, NetTypes, serverVars
  <2>5. TypeOK'
    BY <2>1, <2>4, TypesStay DEF TypeOK, serverVars, clientVars, loopVars, progVars
  <2>6. Numbered' /\ TablesAgree'
    BY <2>1, NumberedStays, TablesStay
    DEF serverVars, srcVars, fwdVars, clientVars, loopVars, callVars
  <2>7. Named'
    <3>1. \A i \in 1 .. Len(writeQ') : NamesIts(writeQ'[i])
      BY <2>3 DEF Named
    <3> QED  BY <2>1, <3>1 DEF Named, NamesIts, serverVars, srcVars, fwdVars, clientVars, loopVars, rVars
  <2> QED  BY <2>5, <2>6, <2>7
<1> QED  BY <1>1, <1>2, <1>3, <1>4

(* The forwarder takes a value, or the end of a channel: only here the two *)
(* tables could come apart.                                                *)
LEMMA FTakesKeeps ==
  ASSUME TableInv, NEW i \in 1 .. Len(cases), FReceive(i) \/ FClosed(i)
  PROVE  TableInv'
<1> USE DEF TableInv
<1>1. /\ cases \in Seq(Streams) /\ caseToID \in Seq(Ids) /\ Len(cases) = Len(caseToID)
      /\ \A j \in 1 .. Len(cases) : caseToID[j] = chid[cases[j]]
  BY DEF TypeOK, FwdTypes, TablesAgree
<1>2. cases[i] \in Streams /\ caseToID[i] \in Ids
  BY <1>1, ElementOfSeq
<1>3. CASE FReceive(i)
  <2> DEFINE s == cases[i]
  <2>1. /\ taken[s] < MaxValues[s] /\ taken' = [taken EXCEPT ![s] = @ + 1]
        /\ fhold' = Value(caseToID[i], <<s, taken'[s]>>) /\ fpc' = "put"
        /\ UNCHANGED <<hpc, chid, chanCtr, srcClosed, cases, caseToID, netVars>>
    BY <1>3 DEF FReceive
  <2>2. MaxValues[s] \in Nat /\ taken[s] \in Nat /\ taken'[s] = taken[s] + 1
    BY <1>2, <2>1, OutChansAssumption DEF TypeOK, SrcTypes
  <2>3. <<s, taken'[s]>> \in Values
    BY <1>2, <2>1, <2>2 DEF Values
  <2>4. SrcTypes'
    BY <1>2, <2>1, <2>2, OutChansAssumption DEF TypeOK, SrcTypes
  <2>5. FwdTypes'
    BY <1>2, <2>1, <2>3, MsgsAre DEF TypeOK, FwdTypes
  <2>6. TypeOK'
    BY <2>1, <2>4, <2>5, TypesStay DEF TypeOK, netVars, clientVars, loopVars, progVars
  <2>7. Numbered' /\ TablesAgree'
    BY <2>1, NumberedStays, TablesStay DEF netVars, clientVars, loopVars, callVars
  <2>8. Named'
    <3>1. NamesIts(fhold)'
      BY <2>1 DEF NamesIts, Value
    <3> QED  BY <2>1, <3>1 DEF Named, NamesIts, netVars, clientVars, loopVars, rVars
  <2> QED  BY <2>6, <2>7, <2>8
<1>4. CASE FClosed(i)
  <2>1. /\ fhold' = Closing(caseToID[i]) /\ fpc' = "put"
        /\ cases' = SwapOut(cases, i) /\ caseToID' = SwapOut(caseToID, i)
        /\ UNCHANGED <<srcVars, netVars>>
    BY <1>4 DEF FClosed
  <2>2. /\ cases' \in Seq(Streams) /\ Len(cases') = Len(cases) - 1
        /\ \A j \in 1 .. Len(cases) - 1 : cases'[j] = IF j = i THEN cases[Len(cases)] ELSE cases[j]
    BY <1>1, <2>1, SwapOutOf
  <2>3. /\ caseToID' \in Seq(Ids) /\ Len(caseToID') = Len(cases) - 1
        /\ \A j \in 1 .. Len(cases) - 1 : caseToID'[j] = IF j = i THEN caseToID[Len(cases)] ELSE caseToID[j]
    <3>1. i \in 1 .. Len(caseToID)
      BY <1>1
    <3>2. /\ SwapOut(caseToID, i) \in Seq(Ids) /\ Len(SwapOut(caseToID, i)) = Len(caseToID) - 1
          /\ \A j \in 1 .. Len(caseToID) - 1 :
               SwapOut(caseToID, i)[j] = IF j = i THEN caseToID[Len(caseToID)] ELSE caseToID[j]
      BY <1>1, <3>1, SwapOutOf
    <3> QED  BY <1>1, <2>1, <3>2
  <2>4. FwdTypes'
    BY <1>2, <2>1, <2>2, <2>3, MsgsAre DEF FwdTypes
  <2>5. TypeOK'
    BY <2>1, <2>4, TypesStay DEF TypeOK, netVars, clientVars, loopVars, progVars
  <2>6. Numbered'
    BY <2>1, NumberedStays DEF srcVars, netVars, clientVars, loopVars, callVars
  <2>7. Named'
    <3>1. NamesIts(fhold)'
      BY <2>1 DEF NamesIts, Closing
    <3> QED  BY <2>1, <3>1 DEF Named, NamesIts, srcVars, netVars, clientVars, loopVars, rVars
  <2>8. TablesAgree'
    <3>1. \A j \in 1 .. Len(cases') : caseToID'[j] = chid[cases'[j]]
      <4> SUFFICES ASSUME NEW j \in 1 .. Len(cases') PROVE caseToID'[j] = chid[cases'[j]]
        OBVIOUS
      <4>1. j \in 1 .. Len(cases) - 1 /\ j \in 1 .. Len(cases) /\ Len(cases) \in 1 .. Len(cases)
        BY <1>1, <2>2, LenProperties
      <4> QED  BY <1>1, <2>2, <2>3, <4>1
    <3> QED  BY <2>1, <2>2, <2>3, <3>1
             DEF TablesAgree, Registered, srcVars, netVars, clientVars, loopVars
  <2> QED  BY <2>5, <2>6, <2>7, <2>8
<1> QED  BY <1>3, <1>4

(* The forwarder's message enters writeChan.                               *)
LEMMA FPutKeeps ==
  ASSUME TableInv, FPut
  PROVE  TableInv'
<1> USE DEF TableInv
<1>1. /\ fpc = "put" /\ Len(writeQ) < WriteCap /\ writeQ' = Append(writeQ, fhold)
      /\ fhold' = NoMsg /\ fpc' = "select"
      /\ UNCHANGED <<srcVars, cases, caseToID, srvExit, conn, clientVars>>
  BY DEF FPut
<1>2. fhold \in Msgs /\ writeQ \in Seq(Msgs) /\ NamesIts(fhold)
  BY <1>1 DEF TypeOK, FwdTypes, NetTypes, Named
<1>3. /\ writeQ' \in Seq(Msgs) /\ Len(writeQ') = Len(writeQ) + 1 /\ Len(writeQ) \in Nat
      /\ writeQ'[Len(writeQ) + 1] = fhold
      /\ \A i \in 1 .. Len(writeQ) : writeQ'[i] = writeQ[i]
  BY <1>1, <1>2, AppendTo
<1>4. FwdTypes'
  BY <1>1 DEF TypeOK, FwdTypes
<1>5. NetTypes'
  <2>1. Len(writeQ') <= WriteCap
    BY <1>1, <1>3, OutChansAssumption
  <2> QED  BY <1>1, <1>3, <2>1 DEF TypeOK, NetTypes
<1>6. TypeOK'
  BY <1>1, <1>4, <1>5, TypesStay DEF TypeOK, clientVars, loopVars, progVars
<1>7. Numbered' /\ TablesAgree'
  BY <1>1, NumberedStays, TablesStay DEF srcVars, clientVars, loopVars, callVars
<1>8. Named'
  <2>1. \A i \in 1 .. Len(writeQ') : NamesIts(writeQ'[i])
    BY <1>2, <1>3 DEF Named
  <2> QED  BY <1>1, <2>1 DEF Named, NamesIts, srcVars, clientVars, loopVars, rVars
<1> QED  BY <1>6, <1>7, <1>8


-----------------------------------------------------------------------------
(* The client: R                                                           *)

LEMMA RFramesKeeps ==
  ASSUME TableInv, RRead \/ RPush
  PROVE  TableInv'
<1> USE DEF TableInv
<1>1. CASE RRead
  <2>1. /\ writeQ # <<>> /\ rhold' = Head(writeQ) /\ writeQ' = Tail(writeQ) /\ rpc' = "push"
        /\ UNCHANGED <<serverVars, conn, callVars, handlers, frames, rtodo, rid, rfor, wVars, progVars>>
        /\ rpc = "read"
    BY <1>1 DEF RRead
  <2>2. writeQ \in Seq(Msgs) /\ Len(writeQ) <= WriteCap
    BY DEF TypeOK, NetTypes
  <2>3. /\ Head(writeQ) \in Msgs /\ Head(writeQ) = writeQ[1] /\ Len(writeQ) \in Nat \ {0}
        /\ writeQ' \in Seq(Msgs) /\ Len(writeQ') = Len(writeQ) - 1
        /\ \A i \in 1 .. Len(writeQ) - 1 : writeQ'[i] = writeQ[i + 1]
    BY <2>1, <2>2, TailOf
  <2>4. NetTypes'
    <3>1. Len(writeQ') <= WriteCap
      BY <2>2, <2>3, OutChansAssumption
    <3> QED  BY <2>1, <2>3, <3>1 DEF TypeOK, NetTypes, serverVars
  <2>5. RTypes'
    BY <2>1, <2>3 DEF TypeOK, RTypes
  <2>6. TypeOK'
    BY <2>1, <2>4, <2>5, TypesStay DEF TypeOK, serverVars, progVars
  <2>7. Numbered' /\ TablesAgree'
    BY <2>1, NumberedStays, TablesStay DEF serverVars, srcVars, fwdVars, callVars
  <2>8. Named'
    <3>1. NamesIts(rhold') /\ \A i \in 1 .. Len(writeQ') : NamesIts(writeQ'[i])
      BY <2>1, <2>3 DEF Named
    <3> QED  BY <2>1, <3>1 DEF Named, NamesIts, serverVars, srcVars, fwdVars
  <2> QED  BY <2>6, <2>7, <2>8
<1>2. CASE RPush
  <2>1. /\ rpc = "push" /\ Len(frames) < FrameCap /\ frames' = Append(frames, rhold)
        /\ rhold' = NoMsg /\ rpc' = "read"
        /\ UNCHANGED <<farVars, callVars, handlers, rtodo, rid, rfor, wVars, progVars>>
    BY <1>2 DEF RPush
  <2>2. rhold \in Msgs /\ frames \in Seq(Msgs) /\ NamesIts(rhold)
    BY <2>1 DEF TypeOK, RTypes, QueueTypes, Named
  <2>3. /\ frames' \in Seq(Msgs) /\ Len(frames') = Len(frames) + 1 /\ Len(frames) \in Nat
        /\ frames'[Len(frames) + 1] = rhold
        /\ \A i \in 1 .. Len(frames) : frames'[i] = frames[i]
    BY <2>1, <2>2, AppendTo
  <2>4. QueueTypes'
    <3>1. Len(frames') <= FrameCap
      BY <2>1, <2>3, OutChansAssumption
    <3> QED  BY <2>1, <2>3, <3>1 DEF TypeOK, QueueTypes
  <2>5. RTypes'
    BY <2>1 DEF TypeOK, RTypes
  <2>6. TypeOK'
    BY <2>1, <2>4, <2>5, TypesStay DEF TypeOK, farVars, serverVars, progVars
  <2>7. Numbered' /\ TablesAgree'
    BY <2>1, NumberedStays, TablesStay DEF farVars, serverVars, srcVars, fwdVars, callVars
  <2>8. Named'
    <3>1. \A i \in 1 .. Len(frames') : NamesIts(frames'[i])
      BY <2>2, <2>3 DEF Named
    <3> QED  BY <2>1, <3>1 DEF Named, NamesIts, farVars, serverVars, srcVars, fwdVars
  <2> QED  BY <2>6, <2>7, <2>8
<1> QED  BY <1>1, <1>2

(* The cleanup: an id that leaves the table keeps the others in it.        *)
LEMMA RCleanupKeeps ==
  ASSUME TableInv,
         RLeave \/ RLookup \/ RClose \/ RChansDone \/ RAnswer \/ \E i \in Ids : RPick(i)
  PROVE  TableInv'
<1> USE DEF TableInv
<1>1. ASSUME RLeave \/ RChansDone \/ \E i \in Ids : RPick(i) PROVE TableInv'
  <2>1. /\ UNCHANGED <<farVars, callVars, handlers, frames, rhold, rfor, wVars, progVars>>
        /\ rpc' # "push"
    BY <1>1 DEF RLeave, RChansDone, RPick
  <2>2. RTypes'
    BY <1>1 DEF TypeOK, RTypes, RLeave, RChansDone, RPick, Registered
  <2>3. TypeOK'
    BY <2>1, <2>2, TypesStay DEF TypeOK, farVars, serverVars, progVars
  <2>4. Numbered' /\ Named' /\ TablesAgree'
    BY <2>1, NumberedStays, NamedStays, TablesStay DEF farVars, serverVars, srcVars, fwdVars, callVars
  <2> QED  BY <2>3, <2>4
<1>2. CASE RLookup
  <2>1. /\ rpc = "look" /\ rfor' = handlers[rid] /\ handlers' = [handlers EXCEPT ![rid] = None]
        /\ crashed' = (handlers[rid] = None) /\ rid' = 0 /\ rpc' = "close"
        /\ UNCHANGED <<farVars, callVars, frames, rhold, rtodo, wVars, pumpVars, ctxDone>>
    BY <1>2 DEF RLookup
  <2>2. rid \in Ids /\ handlers \in [Ids -> Streams \cup {None}]
    BY <2>1 DEF TypeOK, RTypes, QueueTypes
  <2>3. RTypes' /\ QueueTypes'
    BY <2>1, <2>2 DEF TypeOK, RTypes, QueueTypes
  <2>4. ctxDone' \in [Streams -> BOOLEAN] /\ crashed' \in BOOLEAN
    BY <2>1 DEF TypeOK
  <2>5. TypeOK'
    BY <2>1, <2>3, <2>4, TypesStay DEF TypeOK, farVars, serverVars
  <2>6. Numbered' /\ Named'
    BY <2>1, NumberedStays, NamedStays DEF farVars, serverVars, srcVars, fwdVars, callVars
  <2>7. TablesAgree'
    BY <2>1, <2>2 DEF TablesAgree, Registered, farVars, serverVars, srcVars, fwdVars
  <2> QED  BY <2>5, <2>6, <2>7
<1>3. CASE RClose
  <2>1. /\ CloseIncoming(rfor) /\ rfor' = None /\ rpc' = "chans" /\ rpc = "close"
        /\ UNCHANGED <<farVars, callVars, handlers, frames, rhold, rtodo, rid, wVars, incoming,
                       inNil, buf, pump, got, ctxDone>>
    BY <1>3 DEF RClose
  <2>2. RTypes'
    BY <2>1 DEF TypeOK, RTypes
  <2>3. PumpTypes' /\ ctxDone' \in [Streams -> BOOLEAN] /\ crashed' \in BOOLEAN
    BY <2>1 DEF TypeOK, PumpTypes, CloseIncoming
  <2>4. TypeOK'
    BY <2>1, <2>2, <2>3, TypesStay DEF TypeOK, farVars, serverVars
  <2>5. Numbered' /\ Named' /\ TablesAgree'
    BY <2>1, NumberedStays, NamedStays, TablesStay DEF farVars, serverVars, srcVars, fwdVars, callVars
  <2> QED  BY <2>4, <2>5
<1>4. CASE RAnswer
  <2>1. /\ cpc' = [s \in Streams |-> IF s \in inflight /\ cpc[s] = "waiting" THEN "error" ELSE cpc[s]]
        /\ inflight' = {} /\ rpc' = "exit" /\ rpc = "answer"
        /\ UNCHANGED <<farVars, handlers, frames, rhold, rtodo, rid, rfor, wVars, progVars>>
    BY <1>4 DEF RAnswer
  <2>2. RTypes' /\ CallTypes'
    BY <2>1 DEF TypeOK, RTypes, CallTypes
  <2>3. TypeOK'
    BY <2>1, <2>2, TypesStay DEF TypeOK, farVars, serverVars, progVars
  <2>4. Numbered' /\ Named' /\ TablesAgree'
    BY <2>1, NumberedStays, NamedStays, TablesStay DEF farVars, serverVars, srcVars, fwdVars
  <2> QED  BY <2>3, <2>4
<1> QED  BY <1>1, <1>2, <1>3, <1>4

-----------------------------------------------------------------------------
(* The client: W                                                           *)

(* W takes the first frame; a response enters the table under its name.    *)
LEMMA WTakesKeeps ==
  ASSUME TableInv, WDrop \/ WResponse \/ WLookup
  PROVE  TableInv'
<1> USE DEF TableInv
<1> DEFINE m == Head(frames)
<1>1. /\ wpc = "select" /\ frames # <<>> /\ frames' = Tail(frames)
      /\ UNCHANGED <<farVars, callVars, rVars, ctxDone, crashed>>
  BY DEF WDrop, WResponse, WLookup, progVars
<1>2. frames \in Seq(Msgs) /\ Len(frames) <= FrameCap /\ handlers \in [Ids -> Streams \cup {None}]
  BY DEF TypeOK, QueueTypes
<1>3. /\ m \in Msgs /\ m = frames[1] /\ Len(frames) \in Nat \ {0}
      /\ frames' \in Seq(Msgs) /\ Len(frames') = Len(frames) - 1
      /\ \A i \in 1 .. Len(frames) - 1 : frames'[i] = frames[i + 1]
  BY <1>1, <1>2, TailOf
<1>4. /\ m.kind \in {"response", "value", "close"} /\ m.id \in Ids
      /\ m.kind = "response" => m.req \in Streams /\ chid[m.req] = m.id
  BY <1>3, MsgsAre DEF Named, NamesIts
<1> HIDE DEF m
<1>5. Len(frames') <= FrameCap
  BY <1>2, <1>3, OutChansAssumption
<1>6. Numbered'
  BY <1>1, NumberedStays DEF farVars, serverVars, srcVars, callVars
<1>7. Named'
  <2>1. \A i \in 1 .. Len(frames') : NamesIts(frames'[i])
    BY <1>3 DEF Named
  <2> QED  BY <1>1, <2>1 DEF Named, NamesIts, farVars, serverVars, srcVars, fwdVars, rVars
<1>8. CASE WDrop
  <2>1. UNCHANGED <<handlers, wVars, pumpVars>>
    BY <1>8 DEF WDrop, progVars
  <2>2. QueueTypes'
    BY <1>2, <1>3, <1>5, <2>1 DEF QueueTypes
  <2>3. TypeOK'
    BY <1>1, <2>1, <2>2, TypesStay DEF TypeOK, farVars, serverVars
  <2>4. TablesAgree'
    BY <1>1, <2>1, TablesStay DEF farVars, serverVars, srcVars, fwdVars
  <2> QED  BY <1>6, <1>7, <2>3, <2>4
<1>9. CASE WResponse
  <2>1. /\ m.kind = "response" /\ handlers' = [handlers EXCEPT ![m.id] = m.req]
        /\ pump' = [pump EXCEPT ![m.req] = "run"]
        /\ wpc' = "ready" /\ whold' = m /\ wfor' = m.req
        /\ UNCHANGED <<incoming, inClosed, inNil, buf, got>>
    BY <1>9 DEF WResponse, m
  <2>2. QueueTypes'
    BY <1>2, <1>3, <1>4, <1>5, <2>1 DEF QueueTypes
  <2>3. WTypes'
    BY <1>3, <1>4, <2>1 DEF WTypes
  <2>4. PumpTypes'
    BY <2>1 DEF TypeOK, PumpTypes
  <2>5. TypeOK'
    BY <1>1, <2>2, <2>3, <2>4, TypesStay DEF TypeOK, farVars, serverVars
  <2>6. TablesAgree'
    <3>1. \A i \in Ids : handlers'[i] # None => chid[handlers'[i]] = i
      BY <1>2, <1>4, <2>1 DEF TablesAgree, Registered
    <3> QED  BY <1>1, <3>1 DEF TablesAgree, Registered, farVars, serverVars, srcVars, fwdVars
  <2> QED  BY <1>6, <1>7, <2>5, <2>6
<1>10. CASE WLookup
  <2>1. /\ m.kind # "response" /\ handlers[m.id] # None
        /\ wpc' = m.kind /\ whold' = m /\ wfor' = handlers[m.id]
        /\ UNCHANGED <<handlers, pumpVars>>
    BY <1>10 DEF WLookup, m, progVars
  <2>2. QueueTypes'
    BY <1>2, <1>3, <1>5, <2>1 DEF QueueTypes
  <2>3. WTypes'
    BY <1>2, <1>3, <1>4, <2>1 DEF WTypes
  <2>4. TypeOK'
    BY <1>1, <2>1, <2>2, <2>3, TypesStay DEF TypeOK, farVars, serverVars
  <2>5. TablesAgree'
    BY <1>1, <2>1, TablesStay DEF farVars, serverVars, srcVars, fwdVars
  <2> QED  BY <1>6, <1>7, <2>4, <2>5
<1> QED  BY <1>8, <1>9, <1>10

(* W finishes with a frame, or leaves.                                     *)
LEMMA WFinishesKeeps ==
  ASSUME TableInv, WReady \/ WValue \/ WClose \/ WLeave
  PROVE  TableInv'
<1> USE DEF TableInv
<1>1. CASE WReady
  <2>1. /\ wpc = "ready" /\ cpc' = [cpc EXCEPT ![wfor] = IF @ = "waiting" THEN "has" ELSE @]
        /\ inflight' = inflight \ {wfor}
        /\ wpc' = "select" /\ whold' = NoMsg /\ wfor' = None
        /\ UNCHANGED <<farVars, handlers, frames, rVars, progVars>>
    BY <1>1 DEF WReady
  <2>2. wfor \in Streams /\ cpc \in [Streams -> {"idle", "waiting", "has", "error"}]
    BY <2>1 DEF TypeOK, WTypes, CallTypes
  <2>3. WTypes' /\ CallTypes'
    BY <2>1, <2>2 DEF TypeOK, WTypes, CallTypes
  <2>4. TypeOK'
    BY <2>1, <2>3, TypesStay DEF TypeOK, farVars, serverVars, progVars
  <2>5. \A s \in Streams : cpc'[s] = "idle" => cpc[s] = "idle"
    BY <2>1, <2>2
  <2>6. Numbered' /\ Named' /\ TablesAgree'
    BY <2>1, <2>5, NumberedStays, NamedStays, TablesStay
    DEF farVars, serverVars, srcVars, fwdVars, rVars
  <2> QED  BY <2>4, <2>6
<1>2. CASE WValue
  <2>1. /\ wpc = "value" /\ wpc' = "select" /\ whold' = NoMsg /\ wfor' = None
        /\ UNCHANGED <<farVars, callVars, handlers, frames, rVars, inClosed, inNil, buf, pump, got, ctxDone>>
    BY <1>2 DEF WValue
  <2>2. whold \in Msgs /\ whold.data \in Values /\ wfor \in Streams
    BY <2>1, MsgsAre DEF TypeOK, WTypes
  <2>3. crashed' \in BOOLEAN
    BY <1>2 DEF WValue, TypeOK
  <2>4. incoming' \in [Streams -> Seq(Values)] /\ \A s \in Streams : Len(incoming'[s]) <= InCap
    <3>1. incoming \in [Streams -> Seq(Values)] /\ \A s \in Streams : Len(incoming[s]) <= InCap
      BY DEF TypeOK, PumpTypes
    <3>2. CASE UNCHANGED incoming
      BY <3>1, <3>2
    <3>3. CASE /\ Len(incoming[wfor]) < InCap
               /\ incoming' = [incoming EXCEPT ![wfor] = Append(@, whold.data)]
      <4>1. incoming[wfor] \in Seq(Values)
        BY <2>2, <3>1
      <4>2. /\ Append(incoming[wfor], whold.data) \in Seq(Values)
            /\ Len(Append(incoming[wfor], whold.data)) = Len(incoming[wfor]) + 1
            /\ Len(incoming[wfor]) \in Nat
        BY <2>2, <4>1, AppendTo
      <4>3. Len(Append(incoming[wfor], whold.data)) <= InCap
        BY <3>3, <4>2, OutChansAssumption
      <4> QED  BY <2>2, <3>1, <3>3, <4>2, <4>3
    <3> QED  BY <1>2, <3>2, <3>3 DEF WValue
  <2>5. WTypes'
    BY <2>1 DEF WTypes
  <2>6. PumpTypes'
    BY <2>1, <2>4 DEF TypeOK, PumpTypes
  <2>7. ctxDone' \in [Streams -> BOOLEAN]
    BY <2>1 DEF TypeOK
  <2>8. TypeOK'
    BY <2>1, <2>3, <2>5, <2>6, <2>7, TypesStay DEF TypeOK, farVars, serverVars
  <2>9. Numbered' /\ Named' /\ TablesAgree'
    BY <2>1, NumberedStays, NamedStays, TablesStay
    DEF farVars, serverVars, srcVars, fwdVars, rVars, callVars
  <2> QED  BY <2>8, <2>9
<1>3. CASE WClose
  <2>1. /\ wpc = "close" /\ handlers' = [handlers EXCEPT ![whold.id] = None]
        /\ CloseIncoming(wfor) /\ wpc' = "select" /\ whold' = NoMsg /\ wfor' = None
        /\ UNCHANGED <<farVars, callVars, frames, rVars, incoming, inNil, buf, pump, got, ctxDone>>
    BY <1>3 DEF WClose
  <2>2. handlers \in [Ids -> Streams \cup {None}]
    BY DEF TypeOK, QueueTypes
  <2>3. WTypes' /\ QueueTypes'
    BY <2>1, <2>2 DEF TypeOK, WTypes, QueueTypes
  <2>4. PumpTypes' /\ ctxDone' \in [Streams -> BOOLEAN] /\ crashed' \in BOOLEAN
    BY <2>1 DEF TypeOK, PumpTypes, CloseIncoming
  <2>5. TypeOK'
    BY <2>1, <2>3, <2>4, TypesStay DEF TypeOK, farVars, serverVars
  <2>6. Numbered' /\ Named'
    BY <2>1, NumberedStays, NamedStays DEF farVars, serverVars, srcVars, fwdVars, rVars, callVars
  <2>7. TablesAgree'
    BY <2>1, <2>2 DEF TablesAgree, Registered, farVars, serverVars, srcVars, fwdVars
  <2> QED  BY <2>5, <2>6, <2>7
<1>4. CASE WLeave
  <2>1. /\ wpc = "select" /\ wpc' = "exit"
        /\ UNCHANGED <<farVars, callVars, handlers, frames, rVars, whold, wfor, progVars>>
    BY <1>4 DEF WLeave
  <2>2. WTypes'
    BY <2>1 DEF TypeOK, WTypes
  <2>3. TypeOK'
    BY <2>1, <2>2, TypesStay DEF TypeOK, farVars, serverVars, progVars
  <2>4. Numbered' /\ Named' /\ TablesAgree'
    BY <2>1, NumberedStays, NamedStays, TablesStay
    DEF farVars, serverVars, srcVars, fwdVars, rVars, callVars
  <2> QED  BY <2>3, <2>4
<1> QED  BY <1>1, <1>2, <1>3, <1>4

-----------------------------------------------------------------------------
(* The goroutine of a stream, and the program that receives                *)

LEMMA StreamKeeps ==
  ASSUME TableInv, NEW s \in Streams, PumpStep(s) \/ Receive(s)
  PROVE  TableInv'
<1> USE DEF TableInv
<1>1. UNCHANGED <<farVars, loopVars, ctxDone, crashed>>
  BY DEF PumpStep, PumpTake, PumpSeesClose, PumpEnds, Receive
<1>2. /\ incoming \in [Streams -> Seq(Values)] /\ buf \in [Streams -> Seq(Values)]
      /\ got \in [Streams -> Seq(Values)] /\ \A t \in Streams : Len(incoming[t]) <= InCap
      /\ incoming[s] \in Seq(Values) /\ buf[s] \in Seq(Values) /\ got[s] \in Seq(Values)
  BY DEF TypeOK, PumpTypes
<1>3. PumpTypes'
  <2>1. CASE PumpTake(s)
    <3>1. /\ incoming[s] # <<>> /\ buf' = [buf EXCEPT ![s] = Append(@, Head(incoming[s]))]
          /\ incoming' = [incoming EXCEPT ![s] = Tail(@)] /\ UNCHANGED <<inClosed, inNil, pump, got>>
      BY <2>1 DEF PumpTake
    <3>2. /\ Head(incoming[s]) \in Values /\ Tail(incoming[s]) \in Seq(Values)
          /\ Len(Tail(incoming[s])) = Len(incoming[s]) - 1 /\ Len(incoming[s]) \in Nat
      BY <1>2, <3>1, TailOf
    <3>3. Append(buf[s], Head(incoming[s])) \in Seq(Values)
      BY <1>2, <3>2, AppendTo
    <3>4. Len(Tail(incoming[s])) <= InCap
      BY <1>2, <3>2, OutChansAssumption
    <3> QED  BY <1>2, <3>1, <3>2, <3>3, <3>4 DEF TypeOK, PumpTypes
  <2>2. CASE Receive(s)
    <3>1. /\ buf[s] # <<>> /\ got' = [got EXCEPT ![s] = Append(@, Head(buf[s]))]
          /\ buf' = [buf EXCEPT ![s] = Tail(@)] /\ UNCHANGED <<incoming, inClosed, inNil, pump>>
      BY <2>2 DEF Receive
    <3>2. Head(buf[s]) \in Values /\ Tail(buf[s]) \in Seq(Values)
      BY <1>2, <3>1, TailOf
    <3>3. Append(got[s], Head(buf[s])) \in Seq(Values)
      BY <1>2, <3>2, AppendTo
    <3> QED  BY <1>2, <3>1, <3>2, <3>3 DEF TypeOK, PumpTypes
  <2>3. CASE PumpSeesClose(s) \/ PumpEnds(s)
    BY <2>3 DEF TypeOK, PumpTypes, PumpSeesClose, PumpEnds
  <2> QED  BY <2>1, <2>2, <2>3 DEF PumpStep
<1>4. TypeOK'
  BY <1>1, <1>3, TypesStay DEF TypeOK, farVars, serverVars, loopVars
<1>5. Numbered' /\ Named' /\ TablesAgree'
  BY <1>1, NumberedStays, NamedStays, TablesStay
  DEF farVars, serverVars, srcVars, fwdVars, loopVars, rVars, callVars
<1> QED  BY <1>4, <1>5

-----------------------------------------------------------------------------
(* The invariant                                                           *)

LEMMA TableInvInit == Init => TableInv
<1> SUFFICES ASSUME Init PROVE TableInv
  OBVIOUS
<1>1. Cardinality(Streams) \in Nat
  BY IdsAre
<1>2. SrcTypes
  BY <1>1, OutChansAssumption DEF Init, SrcTypes
<1>3. FwdTypes /\ NetTypes
  <2>1. \A S : <<>> \in Seq(S)
    BY EmptySeq
  <2>2. FwdTypes
    BY <2>1 DEF Init, FwdTypes
  <2>3. Len(writeQ) <= WriteCap
    BY OutChansAssumption, EmptySeq DEF Init
  <2> QED  BY <2>1, <2>2, <2>3 DEF Init, NetTypes
<1>4. CallTypes /\ QueueTypes
  BY OutChansAssumption DEF Init, CallTypes, QueueTypes
<1>5. RTypes /\ WTypes
  BY DEF Init, RTypes, WTypes
<1>6. PumpTypes
  BY OutChansAssumption DEF Init, PumpTypes
<1>7. TypeOK
  BY <1>2, <1>3, <1>4, <1>5, <1>6 DEF Init, TypeOK
<1>8. Numbered
  <2>1. {s \in Streams : chid[s] # 0} = {}
    BY DEF Init
  <2> QED  BY <2>1, FS_EmptySet DEF Init, Numbered
<1>9. Named /\ TablesAgree
  BY DEF Init, Named, TablesAgree, Registered
<1> QED  BY <1>7, <1>8, <1>9 DEF TableInv

LEMMA TableInvNext == TableInv /\ [Next]_vars => TableInv'
<1> SUFFICES ASSUME TableInv, [Next]_vars PROVE TableInv'
  OBVIOUS
<1>1. CASE UNCHANGED vars
  <2>1. TypeOK'
    BY <1>1, TypesStay
    DEF TableInv, TypeOK, vars, srcVars, fwdVars, callVars, rVars, wVars, pumpVars
  <2>2. Numbered' /\ Named' /\ TablesAgree'
    BY <1>1, NumberedStays, NamedStays, TablesStay DEF TableInv, vars
  <2> QED  BY <2>1, <2>2 DEF TableInv
<1>2. CASE ServerStep
  BY <1>2, HandleChanOutKeeps, FRegisterKeeps, ServerSmallKeeps, FTakesKeeps, FPutKeeps
  DEF ServerStep, FStep
<1>3. CASE RStep
  BY <1>3, RFramesKeeps, RCleanupKeeps DEF RStep
<1>4. CASE WStep
  BY <1>4, WTakesKeeps, WFinishesKeeps DEF WStep
<1>5. CASE Environment
  BY <1>5, EnvironmentKeeps
<1>6. CASE \E s \in Streams : PumpStep(s) \/ Receive(s)
  BY <1>6, StreamKeeps
<1> QED  BY <1>1, <1>2, <1>3, <1>4, <1>5, <1>6 DEF Next

LEMMA TableInvAlways == Spec => []TableInv
  BY TableInvInit, TableInvNext, PTL DEF Spec

(* Every variable of the connection has its type: each id the forwarder    *)
(* hands out, from a counter without a limit of its own, is one of as many *)
(* as there are streams (websocket.go:172-181), and no queue exceeds its   *)
(* capacity.                                                               *)
THEOREM StreamTypes == Spec => []TypeOK
<1>1. TableInv => TypeOK
  BY DEF TableInv
<1> QED  BY <1>1, TableInvAlways, PTL

(* The two tables of handleOutChans keep speaking of the same channels     *)
(* while channels are registered and removed in any order, and the client  *)
(* knows each id by the stream the server gave it to                       *)
(* (websocket.go:125-129, 155-164, 302).                                   *)
THEOREM TablesStayEqual == Spec => []TablesAgree
<1>1. TableInv => TablesAgree
  BY DEF TableInv
<1> QED  BY <1>1, TableInvAlways, PTL

-----------------------------------------------------------------------------
(***************************************************************************)
(* OutChans implements Stream, for any streams, numbers of values and      *)
(* capacities: no value is lost, doubled or overtaken between the handler  *)
(* and the program, and a channel is only closed early for a reason.       *)
(*                                                                         *)
(* The argument follows Line, the messages between the handlers' channels  *)
(* and W in the order W will take them: what the client holds of a stream  *)
(* (Kept), what W has in its hands (InHand) and what is still in line      *)
(* (InLine) are, one after the other, all values of the stream, as long as *)
(* W can still deliver them (Live); and the end of the stream comes after  *)
(* the last of them (InLine, InHand, Closes).                              *)
(***************************************************************************)

(* What is on its way                                                      *)

(* The messages between the handlers' channels and W, in the order W will  *)
(* take them.  What the server still holds is lost with the connection.    *)
Sent == IF fpc = "put" THEN <<fhold>> ELSE <<>>
Read == IF rpc = "push" THEN <<rhold>> ELSE <<>>
Line == (frames \o Read) \o (IF conn = "up" THEN writeQ \o Sent ELSE <<>>)

IsValue(m, s) == m.kind = "value" /\ m.data[1] = s
About(m, s) == chid[s] = m.id /\ hpc[s] = "registered"

(* The values of s among the first i messages of q.                        *)
ValuePos(q, s, i) == {j \in 1 .. i : IsValue(q[j], s)}
ValuesTo(q, s, i) == Cardinality(ValuePos(q, s, i))

(* Will W hand on the values of s?  It does when it has the stream's       *)
(* channel or will make it, and the context is not done.                   *)
Reachable(s) ==
  \/ \E i \in Ids : handlers[i] = s
  \/ \E i \in 1 .. Len(Line) : Line[i].kind = "response" /\ Line[i].req = s
Live(s) == ~ctxDone[s] /\ Reachable(s)

(* How many values of s are past W, and past frameChan.                    *)
Handed(s) == Len(got[s]) + Len(buf[s]) + Len(incoming[s])
Base(s) == Handed(s) + (IF wpc = "value" /\ wfor = s THEN 1 ELSE 0)

-----------------------------------------------------------------------------
(* The invariant                                                           *)

Distinct ==
  /\ \A s \in Streams : chid[s] <= chanCtr
  /\ \A s, t \in Streams : chid[s] = chid[t] /\ chid[s] # 0 => s = t

(* Nothing is heard of a stream before it is registered.                   *)
Settled ==
  /\ \A s \in Streams : hpc[s] # "registered" =>
       taken[s] = 0 /\ got[s] = <<>> /\ buf[s] = <<>> /\ incoming[s] = <<>>
  /\ \A i \in 1 .. Len(cases) : hpc[cases[i]] = "registered"
  /\ \A i \in Ids : handlers[i] # None => hpc[handlers[i]] = "registered"
  /\ wfor # None => hpc[wfor] = "registered"
  /\ rpc \notin {"read", "push"} => conn = "down"

(* A message is about the stream it names, and the response is the first   *)
(* message about its stream.                                               *)
Addressed ==
  \A i \in 1 .. Len(Line) :
    /\ \E s \in Streams : About(Line[i], s)
    /\ Line[i].kind = "value" => About(Line[i], Line[i].data[1])
    /\ Line[i].kind = "response" =>
         /\ About(Line[i], Line[i].req)
         /\ \A j \in 1 .. i - 1 : Line[j].id # Line[i].id

(* The client holds the first values of s, each in its place.              *)
Kept(s) ==
  /\ \A n \in 1 .. Len(got[s]) : got[s][n] = <<s, n>>
  /\ \A n \in 1 .. Len(buf[s]) : buf[s][n] = <<s, Len(got[s]) + n>>
  /\ \A n \in 1 .. Len(incoming[s]) : incoming[s][n] = <<s, Len(got[s]) + Len(buf[s]) + n>>
  /\ Base(s) <= taken[s]

(* W holds the next one, or the end after all of them.                     *)
InHand ==
  /\ wpc = "value" => whold.data = <<wfor, Handed(wfor) + 1>>
  /\ (wpc = "close" /\ ~ctxDone[wfor]) => srcClosed[wfor] /\ Base(wfor) = taken[wfor]

(* The values in line follow without a gap; the end comes after the last   *)
(* one; and while the connection is up the line holds all there are.       *)
InLine(s) ==
  Live(s) =>
    /\ \A i \in 1 .. Len(Line) :
         /\ IsValue(Line[i], s) =>
              /\ Line[i].data = <<s, Base(s) + ValuesTo(Line, s, i)>>
              /\ Base(s) + ValuesTo(Line, s, i) <= taken[s]
         /\ (Line[i].kind = "close" /\ About(Line[i], s)) =>
              srcClosed[s] /\ Base(s) + ValuesTo(Line, s, i) = taken[s]
    /\ conn = "up" => Base(s) + ValuesTo(Line, s, Len(Line)) = taken[s]

(* incoming is closed after the last value, unless R closed it.            *)
Closes(s) ==
  /\ inNil[s] => inClosed[s] /\ incoming[s] = <<>>
  /\ (inClosed[s] /\ ~ctxDone[s] /\ conn = "up") => srcClosed[s] /\ Handed(s) = taken[s]

Ordered ==
  /\ Distinct /\ Settled /\ Addressed /\ InHand
  /\ \A s \in Streams : Kept(s) /\ InLine(s) /\ Closes(s)

(* The goroutine of s is started once, when the call is still in flight.   *)
Fresh ==
  /\ \A s \in inflight : cpc[s] # "idle"
  /\ \A s \in Streams : pump[s] # "none" =>
       cpc[s] # "idle" /\ (s \in inflight => wpc = "ready" /\ wfor = s)

StreamInv == TableInv /\ Fresh /\ (crashed \/ Ordered)

-----------------------------------------------------------------------------
(* Counting the values of a stream                                         *)

LEMMA ValuesAre ==
  ASSUME NEW q, NEW s, NEW i \in Nat
  PROVE  /\ IsFiniteSet(ValuePos(q, s, i)) /\ ValuesTo(q, s, i) \in Nat
         /\ ValuesTo(q, s, 0) = 0
<1>1. IsFiniteSet(1 .. i) /\ ValuePos(q, s, i) \subseteq 1 .. i
  BY FS_Interval DEF ValuePos
<1>2. IsFiniteSet(ValuePos(q, s, i))
  BY <1>1, FS_Subset
<1>3. ValuesTo(q, s, i) \in Nat
  BY <1>2, FS_CardinalityType DEF ValuesTo
<1>4. ValuePos(q, s, 0) = {}
  BY DEF ValuePos
<1> QED  BY <1>2, <1>3, <1>4, FS_EmptySet DEF ValuesTo

(* The same messages have the same values among them.                      *)
LEMMA ValuesSame ==
  ASSUME NEW q, NEW r, NEW s, NEW i \in Nat, \A j \in 1 .. i : q[j] = r[j]
  PROVE  ValuesTo(q, s, i) = ValuesTo(r, s, i)
<1>1. ValuePos(q, s, i) = ValuePos(r, s, i)
  BY DEF ValuePos
<1> QED  BY <1>1 DEF ValuesTo

LEMMA ValuesNext ==
  ASSUME NEW q, NEW s, NEW i \in Nat
  PROVE  ValuesTo(q, s, i + 1) = ValuesTo(q, s, i) + (IF IsValue(q[i + 1], s) THEN 1 ELSE 0)
<1> DEFINE P == ValuePos(q, s, i)
<1>1. ValuePos(q, s, i + 1) = IF IsValue(q[i + 1], s) THEN P \cup {i + 1} ELSE P
  BY DEF ValuePos
<1>2. i + 1 \notin P /\ IsFiniteSet(P) /\ Cardinality(P) \in Nat
  BY ValuesAre DEF ValuePos, ValuesTo
<1> HIDE DEF P
<1>3. Cardinality(P \cup {i + 1}) = Cardinality(P) + 1
  BY <1>2, FS_AddElement
<1>4. Cardinality(ValuePos(q, s, i + 1)) = Cardinality(P) + (IF IsValue(q[i + 1], s) THEN 1 ELSE 0)
  BY <1>1, <1>2, <1>3
<1> QED  BY <1>4 DEF P, ValuesTo

(* The count of r, which is q without its first message.                   *)
LEMMA ValuesTail ==
  ASSUME NEW q, NEW r, NEW s, NEW i \in Nat, \A j \in 1 .. i : r[j] = q[j + 1]
  PROVE  ValuesTo(q, s, i + 1) = ValuesTo(r, s, i) + (IF IsValue(q[1], s) THEN 1 ELSE 0)
<1> DEFINE P == ValuePos(r, s, i)
           P1 == ValuePos(q, s, i + 1)
           P2 == P1 \ {1}
           f == [j \in P |-> j + 1]
<1>1. f \in Bijection(P, P2)
  <2>1. P \subseteq Nat
    BY DEF ValuePos
  <2>2. f \in [P -> P2]
    BY DEF ValuePos
  <2>3. \A j, k \in P : f[j] = f[k] => j = k
    BY <2>1
  <2>4. \A k \in P2 : \E j \in P : f[j] = k
    <3> TAKE k \in P2
    <3>1. k \in 2 .. i + 1 /\ IsValue(q[k], s)
      BY DEF ValuePos
    <3>2. k - 1 \in 1 .. i /\ r[k - 1] = q[k]
      BY <3>1
    <3>3. k - 1 \in P /\ f[k - 1] = k
      BY <3>1, <3>2 DEF ValuePos
    <3> QED  BY <3>3
  <2> HIDE DEF f, P, P2
  <2> QED  BY <2>2, <2>3, <2>4, Fun_IsBij
<1>2. IsFiniteSet(P) /\ IsFiniteSet(P1) /\ Cardinality(P) \in Nat /\ Cardinality(P1) \in Nat
  BY ValuesAre DEF ValuesTo
<1>3. 1 \in P1 <=> IsValue(q[1], s)
  BY DEF ValuePos
<1> HIDE DEF f, P, P1
<1>4. Cardinality(P2) = Cardinality(P)
  <2> HIDE DEF P2
  <2>1. ExistsBijection(P, P2)
    BY <1>1 DEF ExistsBijection
  <2> QED  BY <1>2, <2>1, FS_Bijection
<1>5. Cardinality(P2) = IF 1 \in P1 THEN Cardinality(P1) - 1 ELSE Cardinality(P1)
  BY <1>2, FS_RemoveElement
<1>6. Cardinality(P1) = Cardinality(P) + (IF IsValue(q[1], s) THEN 1 ELSE 0)
  BY <1>2, <1>3, <1>4, <1>5
<1> QED  BY <1>6 DEF P, P1, ValuesTo

-----------------------------------------------------------------------------
(* How a step changes the line                                             *)

LEMMA LineAre ==
  ASSUME TypeOK
  PROVE  /\ frames \in Seq(Msgs) /\ Read \in Seq(Msgs) /\ writeQ \in Seq(Msgs)
         /\ Sent \in Seq(Msgs) /\ Line \in Seq(Msgs)
<1>1. frames \in Seq(Msgs) /\ writeQ \in Seq(Msgs)
  BY DEF TypeOK, QueueTypes, NetTypes
<1>2. \A m \in Msgs : <<m>> \in Seq(Msgs)
  OBVIOUS
<1>3. <<>> \in Seq(Msgs)
  BY EmptySeq
<1>4. Read \in Seq(Msgs)
  BY <1>2, <1>3 DEF TypeOK, RTypes, Read
<1>5. Sent \in Seq(Msgs)
  BY <1>2, <1>3 DEF TypeOK, FwdTypes, Sent
<1>6. Line \in Seq(Msgs)
  <2>1. frames \o Read \in Seq(Msgs) /\ writeQ \o Sent \in Seq(Msgs)
    BY <1>1, <1>4, <1>5, ConcatProperties
  <2>2. \A r \in Seq(Msgs) : (frames \o Read) \o r \in Seq(Msgs)
    BY <2>1, ConcatProperties
  <2> QED  BY <1>3, <2>1, <2>2 DEF Line
<1> QED  BY <1>1, <1>4, <1>5, <1>6

LEMMA TailConcat ==
  ASSUME NEW S, NEW q \in Seq(S), NEW r \in Seq(S), q # <<>>
  PROVE  /\ q \o r # <<>> /\ Head(q \o r) = Head(q) /\ Tail(q \o r) = Tail(q) \o r
<1>1. /\ Len(q) \in Nat /\ Len(q) > 0 /\ Len(r) \in Nat
      /\ Tail(q) \in Seq(S) /\ Len(Tail(q)) = Len(q) - 1
      /\ \A i \in 1 .. Len(q) - 1 : Tail(q)[i] = q[i + 1]
  BY HeadTailProperties, EmptySeq, LenProperties
<1>2. /\ q \o r \in Seq(S) /\ Len(q \o r) = Len(q) + Len(r)
      /\ \A i \in 1 .. Len(q) + Len(r) : (q \o r)[i] = IF i <= Len(q) THEN q[i] ELSE r[i - Len(q)]
  BY ConcatProperties
<1>3. q \o r # <<>>
  BY <1>1, <1>2, EmptySeq
<1>4. Head(q \o r) = Head(q)
  BY <1>1, <1>2
<1>5. /\ Tail(q \o r) \in Seq(S) /\ Len(Tail(q \o r)) = Len(q) + Len(r) - 1
      /\ \A i \in 1 .. Len(q) + Len(r) - 1 : Tail(q \o r)[i] = (q \o r)[i + 1]
  BY <1>2, <1>3, HeadTailProperties
<1>6. /\ Tail(q) \o r \in Seq(S) /\ Len(Tail(q) \o r) = Len(q) - 1 + Len(r)
      /\ \A i \in 1 .. Len(q) - 1 + Len(r) :
           (Tail(q) \o r)[i] = IF i <= Len(q) - 1 THEN Tail(q)[i] ELSE r[i - (Len(q) - 1)]
  <2>1. /\ Tail(q) \o r \in Seq(S) /\ Len(Tail(q) \o r) = Len(Tail(q)) + Len(r)
        /\ \A i \in 1 .. Len(Tail(q)) + Len(r) :
             (Tail(q) \o r)[i] = IF i <= Len(Tail(q)) THEN Tail(q)[i] ELSE r[i - Len(Tail(q))]
    BY <1>1, ConcatProperties
  <2> QED  BY <1>1, <2>1
<1>7. \A i \in 1 .. Len(q) + Len(r) - 1 : Tail(q \o r)[i] = (Tail(q) \o r)[i]
  <2> SUFFICES ASSUME NEW i \in 1 .. Len(q) + Len(r) - 1
               PROVE  Tail(q \o r)[i] = (Tail(q) \o r)[i]
    OBVIOUS
  <2>1. i + 1 \in 1 .. Len(q) + Len(r) /\ i \in 1 .. Len(q) - 1 + Len(r)
    BY <1>1
  <2>2. Tail(q \o r)[i] = IF i + 1 <= Len(q) THEN q[i + 1] ELSE r[(i + 1) - Len(q)]
    BY <1>2, <1>5, <2>1
  <2>3. (Tail(q) \o r)[i] = IF i <= Len(q) - 1 THEN Tail(q)[i] ELSE r[i - (Len(q) - 1)]
    BY <1>6, <2>1
  <2>4. CASE i <= Len(q) - 1
    BY <1>1, <2>2, <2>3, <2>4
  <2>5. CASE i > Len(q) - 1
    <3>1. (i + 1) - Len(q) = i - (Len(q) - 1)
      BY <1>1
    <3> QED  BY <1>1, <2>2, <2>3, <2>5, <3>1
  <2> QED  BY <1>1, <2>4, <2>5
<1> QED  BY <1>3, <1>4, <1>5, <1>6, <1>7, SeqEqual

LEMMA HeadAndTail ==
  ASSUME NEW S, NEW q \in Seq(S), q # <<>>
  PROVE  q = <<Head(q)>> \o Tail(q)
<1>1. Head(q) \in S /\ Tail(q) \in Seq(S) /\ <<Head(q)>> \in Seq(S)
  BY HeadTailProperties
<1>2. /\ Len(q) \in Nat /\ Len(q) > 0 /\ Len(Tail(q)) = Len(q) - 1 /\ Head(q) = q[1]
      /\ \A i \in 1 .. Len(q) - 1 : Tail(q)[i] = q[i + 1]
  BY HeadTailProperties, EmptySeq
<1>3. /\ <<Head(q)>> \o Tail(q) \in Seq(S) /\ Len(<<Head(q)>> \o Tail(q)) = 1 + Len(Tail(q))
      /\ \A i \in 1 .. 1 + Len(Tail(q)) :
           (<<Head(q)>> \o Tail(q))[i] = IF i <= 1 THEN <<Head(q)>>[i] ELSE Tail(q)[i - 1]
  <2>1. Len(<<Head(q)>>) = 1
    OBVIOUS
  <2> QED  BY <1>1, <2>1, ConcatProperties
<1>4. \A i \in 1 .. Len(q) : q[i] = (<<Head(q)>> \o Tail(q))[i]
  <2> SUFFICES ASSUME NEW i \in 1 .. Len(q) PROVE q[i] = (<<Head(q)>> \o Tail(q))[i]
    OBVIOUS
  <2>1. i \in 1 .. 1 + Len(Tail(q))
    BY <1>2
  <2>2. CASE i = 1
    BY <1>2, <1>3, <2>1, <2>2
  <2>3. CASE i > 1
    <3>1. i - 1 \in 1 .. Len(q) - 1 /\ (i - 1) + 1 = i
      BY <1>2, <2>3
    <3>2. Tail(q)[i - 1] = q[i]
      BY <1>2, <3>1
    <3> QED  BY <1>3, <2>1, <2>3, <3>2
  <2> QED  BY <2>2, <2>3
<1> QED  BY <1>2, <1>3, <1>4, SeqEqual

(* W takes the first message in line.                                      *)
LEMMA LineTail ==
  ASSUME TypeOK, frames # <<>>, frames' = Tail(frames), UNCHANGED <<rpc, rhold, conn, writeQ, fpc, fhold>>
  PROVE  Line # <<>> /\ Head(Line) = Head(frames) /\ Line' = Tail(Line)
<1> DEFINE X == IF conn = "up" THEN writeQ \o Sent ELSE <<>>
<1>1. X \in Seq(Msgs) /\ frames \in Seq(Msgs) /\ Read \in Seq(Msgs)
  BY LineAre, ConcatProperties, EmptySeq
<1>2. Line = (frames \o Read) \o X
  BY DEF Line
<1>3. Line' = (Tail(frames) \o Read) \o X
  BY DEF Line, Read, Sent
<1> HIDE DEF X
<1>4. /\ frames \o Read # <<>> /\ frames \o Read \in Seq(Msgs)
      /\ Head(frames \o Read) = Head(frames) /\ Tail(frames \o Read) = Tail(frames) \o Read
  BY <1>1, TailConcat, ConcatProperties
<1>5. /\ (frames \o Read) \o X # <<>> /\ Head((frames \o Read) \o X) = Head(frames \o Read)
      /\ Tail((frames \o Read) \o X) = Tail(frames \o Read) \o X
  BY <1>1, <1>4, TailConcat
<1> QED  BY <1>2, <1>3, <1>4, <1>5

(* A message moves on from one place to the next.                          *)
LEMMA LineMoves ==
  ASSUME TypeOK, FPut \/ RRead \/ RPush
  PROVE  Line' = Line
<1>1. /\ frames \in Seq(Msgs) /\ Read \in Seq(Msgs) /\ writeQ \in Seq(Msgs)
      /\ Sent \in Seq(Msgs)
  BY LineAre
<1>2. CASE FPut
  <2>1. /\ fpc = "put" /\ writeQ' = Append(writeQ, fhold) /\ fpc' = "select"
        /\ UNCHANGED <<conn, frames, rpc, rhold>>
    BY <1>2 DEF FPut, clientVars, loopVars, rVars
  <2>2. fhold \in Msgs
    BY <2>1 DEF TypeOK, FwdTypes
  <2>3. writeQ' = writeQ \o <<fhold>> /\ writeQ' \in Seq(Msgs)
    BY <1>1, <2>1, <2>2, AppendIsConcat, AppendProperties
  <2>4. Sent' = <<>> /\ Sent = <<fhold>> /\ Read' = Read
    BY <2>1 DEF Sent, Read
  <2>5. writeQ' \o Sent' = writeQ'
    BY <2>3, <2>4, ConcatEmptySeq
  <2> QED  BY <2>1, <2>3, <2>4, <2>5 DEF Line
<1>3. CASE RRead
  <2>1. /\ rpc = "read" /\ conn = "up" /\ writeQ # <<>> /\ rhold' = Head(writeQ)
        /\ writeQ' = Tail(writeQ) /\ rpc' = "push" /\ UNCHANGED <<conn, frames, fpc, fhold>>
    BY <1>3 DEF RRead, serverVars, fwdVars
  <2> DEFINE h == <<Head(writeQ)>>
             t == Tail(writeQ)
  <2>2. writeQ = h \o t /\ h \in Seq(Msgs) /\ t \in Seq(Msgs)
    BY <1>1, <2>1, HeadAndTail, HeadTailProperties
  <2>3. Read = <<>> /\ Read' = h /\ Sent' = Sent /\ writeQ' = t
    BY <2>1 DEF Read, Sent
  <2> HIDE DEF h, t
  <2>4. frames \o Read = frames
    BY <1>1, <2>3, ConcatEmptySeq
  <2>5. (frames \o h) \o (t \o Sent) = frames \o (h \o (t \o Sent))
    <3>1. t \o Sent \in Seq(Msgs)
      BY <1>1, <2>2, ConcatProperties
    <3>2. \A x, y, z \in Seq(Msgs) : (x \o y) \o z = x \o (y \o z)
      BY ConcatAssociative
    <3>3. frames \in Seq(Msgs) /\ h \in Seq(Msgs) /\ t \o Sent \in Seq(Msgs)
      BY <1>1, <2>2, <3>1
    <3> QED  BY <3>2, <3>3
  <2>6. h \o (t \o Sent) = writeQ \o Sent
    <3>1. (h \o t) \o Sent = h \o (t \o Sent)
      BY <1>1, <2>2, ConcatAssociative
    <3> QED  BY <2>2, <3>1, Zenon
  <2> QED  BY <2>1, <2>3, <2>4, <2>5, <2>6 DEF Line
<1>4. CASE RPush
  <2>1. /\ rpc = "push" /\ frames' = Append(frames, rhold) /\ rpc' = "read"
        /\ UNCHANGED <<conn, writeQ, fpc, fhold>>
    BY <1>4 DEF RPush, farVars, serverVars, fwdVars
  <2>2. rhold \in Msgs
    BY <2>1 DEF TypeOK, RTypes
  <2>3. frames' = frames \o <<rhold>> /\ frames' \in Seq(Msgs)
    BY <1>1, <2>1, <2>2, AppendIsConcat, AppendProperties
  <2>4. Read' = <<>> /\ Read = <<rhold>> /\ Sent' = Sent
    BY <2>1 DEF Read, Sent
  <2>5. frames' \o Read' = frames'
    BY <2>3, <2>4, ConcatEmptySeq
  <2> QED  BY <2>1, <2>3, <2>4, <2>5 DEF Line
<1> QED  BY <1>2, <1>3, <1>4

(* The forwarder has a new message; it is lost if the connection is.       *)
LEMMA LineGrows ==
  ASSUME TypeOK, fpc = "select", fpc' = "put", fhold' \in Msgs,
         UNCHANGED <<frames, rpc, rhold, conn, writeQ>>
  PROVE  Line' = IF conn = "up" THEN Append(Line, fhold') ELSE Line
<1>1. /\ frames \o Read \in Seq(Msgs) /\ writeQ \in Seq(Msgs) /\ <<fhold'>> \in Seq(Msgs)
      /\ Line \in Seq(Msgs)
  BY LineAre, ConcatProperties
<1>2. Read' = Read /\ Sent = <<>> /\ Sent' = <<fhold'>>
  BY DEF Read, Sent
<1>3. CASE conn = "up"
  <2>1. writeQ \o Sent = writeQ
    BY <1>1, <1>2, ConcatEmptySeq
  <2>2. Line = (frames \o Read) \o writeQ
    BY <1>3, <2>1 DEF Line
  <2>3. Line' = (frames \o Read) \o (writeQ \o <<fhold'>>)
    BY <1>2, <1>3 DEF Line
  <2>4. Line' = Line \o <<fhold'>>
    BY <1>1, <2>2, <2>3, ConcatAssociative
  <2> QED  BY <1>1, <1>3, <2>4, AppendIsConcat
<1>4. CASE conn # "up"
  BY <1>2, <1>4 DEF Line
<1> QED  BY <1>3, <1>4

(* With the connection goes the server's part of the line.                 *)
LEMMA LineCut ==
  ASSUME TypeOK, conn = "up", conn' = "down", UNCHANGED <<frames, rpc, rhold>>
  PROVE  /\ Len(Line') <= Len(Line) /\ Len(Line') \in Nat
         /\ \A i \in 1 .. Len(Line') : Line'[i] = Line[i]
<1>1. /\ frames \o Read \in Seq(Msgs) /\ writeQ \o Sent \in Seq(Msgs)
  BY LineAre, ConcatProperties
<1>2. Line' = frames \o Read
  <2>1. Line' = (frames \o Read) \o <<>>
    BY DEF Line, Read
  <2> QED  BY <1>1, <2>1, ConcatEmptySeq
<1>3. Line = (frames \o Read) \o (writeQ \o Sent)
  BY DEF Line
<1> DEFINE q == frames \o Read
           r == writeQ \o Sent
<1>4. /\ Len(q \o r) = Len(q) + Len(r) /\ Len(q) \in Nat /\ Len(r) \in Nat
      /\ \A i \in 1 .. Len(q) + Len(r) : (q \o r)[i] = IF i <= Len(q) THEN q[i] ELSE r[i - Len(q)]
  <2> HIDE DEF q, r
  <2> QED  BY <1>1, ConcatProperties, LenProperties DEF q, r
<1> HIDE DEF q, r
<1> QED  BY <1>2, <1>3, <1>4 DEF q, r

(* The other steps leave it.                                               *)
LEMMA LineStays ==
  ASSUME UNCHANGED <<frames, conn>>,
         rpc = "push" \/ rpc' = "push" => UNCHANGED <<rpc, rhold>>,
         conn = "up" => writeQ' = writeQ,
         fpc = "put" \/ fpc' = "put" => UNCHANGED <<fpc, fhold>>
  PROVE  Line' = Line
<1>1. Read' = Read /\ Sent' = Sent
  BY DEF Read, Sent
<1> QED  BY <1>1 DEF Line

-----------------------------------------------------------------------------
(* What the parts of the invariant depend on                               *)

LEMMA BaseAre ==
  ASSUME TypeOK, NEW s \in Streams
  PROVE  /\ Len(got[s]) \in Nat /\ Len(buf[s]) \in Nat /\ Len(incoming[s]) \in Nat
         /\ Handed(s) \in Nat /\ Base(s) \in Nat /\ taken[s] \in Nat
         /\ Handed(s) = Len(got[s]) + Len(buf[s]) + Len(incoming[s])
         /\ Base(s) = IF wpc = "value" /\ wfor = s THEN Handed(s) + 1 ELSE Handed(s)
<1>1. got[s] \in Seq(Values) /\ buf[s] \in Seq(Values) /\ incoming[s] \in Seq(Values)
  BY DEF TypeOK, PumpTypes
<1>2. Len(got[s]) \in Nat /\ Len(buf[s]) \in Nat /\ Len(incoming[s]) \in Nat
  BY <1>1
<1>3. taken[s] \in Nat
  BY DEF TypeOK, SrcTypes
<1>4. Handed(s) = Len(got[s]) + Len(buf[s]) + Len(incoming[s])
  BY DEF Handed
<1>5. Handed(s) \in Nat
  <2>1. \A i, j, k \in Nat : i + j + k \in Nat
    OBVIOUS
  <2> QED  BY <1>2, <1>4, <2>1, Zenon
<1>6. Base(s) = Handed(s) + (IF wpc = "value" /\ wfor = s THEN 1 ELSE 0)
  BY DEF Base
<1> HIDE DEF Handed
<1>7. Base(s) = (IF wpc = "value" /\ wfor = s THEN Handed(s) + 1 ELSE Handed(s)) /\ Base(s) \in Nat
  BY <1>5, <1>6
<1> QED  BY <1>2, <1>3, <1>4, <1>5, <1>7

(* The registration of a stream is not taken back.                         *)
KeepsIds == \A s \in Streams :
  hpc[s] = "registered" => hpc'[s] = "registered" /\ chid'[s] = chid[s]

(* The line without its first k messages, perhaps cut at its end.          *)
Window(k) ==
  /\ Len(Line) \in Nat /\ Len(Line') \in Nat /\ Len(Line') + k <= Len(Line)
  /\ \A i \in 1 .. Len(Line') : Line'[i] = Line[i + k]

LEMMA WindowStays ==
  ASSUME TypeOK, Line' = Line
  PROVE  Window(0)
<1>1. Len(Line) \in Nat
  BY LineAre
<1> QED  BY <1>1 DEF Window

LEMMA WindowTail ==
  ASSUME TypeOK, Line # <<>>, Line' = Tail(Line)
  PROVE  /\ Window(1) /\ Head(Line) = Line[1] /\ Line[1] \in Msgs /\ 1 \in 1 .. Len(Line)
         /\ Len(Line') + 1 = Len(Line)
<1>1. Line \in Seq(Msgs)
  BY LineAre
<1>2. /\ Head(Line) \in Msgs /\ Len(Tail(Line)) = Len(Line) - 1 /\ Len(Line) \in Nat \ {0}
      /\ Head(Line) = Line[1] /\ \A i \in 1 .. Len(Line) - 1 : Tail(Line)[i] = Line[i + 1]
  BY <1>1, TailOf
<1> QED  BY <1>2 DEF Window

LEMMA AddressedWindow ==
  ASSUME TypeOK, Addressed, NEW k \in Nat, Window(k), KeepsIds
  PROVE  Addressed'
<1> SUFFICES ASSUME NEW i \in 1 .. Len(Line')
             PROVE  /\ \E s \in Streams : About(Line[i], s)'
                    /\ Line'[i].kind = "value" => About(Line[i], Line[i].data[1])'
                    /\ Line'[i].kind = "response" =>
                         /\ About(Line[i], Line[i].req)'
                         /\ \A j \in 1 .. i - 1 : Line'[j].id # Line'[i].id
  BY DEF Addressed
<1>1. i + k \in 1 .. Len(Line) /\ Line'[i] = Line[i + k]
  BY DEF Window
<1> DEFINE m == Line[i + k]
<1>2. m \in Msgs
  BY <1>1, LineAre, ElementOfSeq
<1>3. /\ \E s \in Streams : About(m, s)
      /\ m.kind = "value" => About(m, m.data[1])
      /\ m.kind = "response" => About(m, m.req) /\ \A j \in 1 .. i + k - 1 : Line[j].id # m.id
  BY <1>1 DEF Addressed
<1>4. /\ m.kind = "value" => m.data[1] \in Streams
      /\ m.kind = "response" => m.req \in Streams
  BY <1>2, MsgsAre DEF Values
<1>5. \A j \in 1 .. i - 1 : Line'[j] = Line[j + k] /\ j + k \in 1 .. i + k - 1
  BY DEF Window
<1> HIDE DEF m
<1>6. \A s \in Streams : About(m, s) => chid'[s] = m.id /\ hpc'[s] = "registered"
  BY DEF About, KeepsIds
<1>7. Line'[i] = m
  BY <1>1 DEF m
<1> QED  BY <1>3, <1>4, <1>5, <1>6, <1>7 DEF About

LEMMA ReachableShrinks ==
  ASSUME NEW s \in Streams, NEW k \in Nat, Window(k),
         \A i \in Ids : handlers'[i] = s => Reachable(s)
  PROVE  Reachable(s)' => Reachable(s)
<1> SUFFICES ASSUME Reachable(s)' PROVE Reachable(s)
  OBVIOUS
<1>1. CASE \E i \in Ids : handlers'[i] = s
  BY <1>1
<1>2. CASE \E i \in 1 .. Len(Line') : Line'[i].kind = "response" /\ Line'[i].req = s
  <2>1. PICK i \in 1 .. Len(Line') : Line'[i].kind = "response" /\ Line'[i].req = s
    BY <1>2
  <2>2. i + k \in 1 .. Len(Line) /\ Line'[i] = Line[i + k]
    BY DEF Window
  <2> QED  BY <2>1, <2>2 DEF Reachable
<1> QED  BY <1>1, <1>2 DEF Reachable

(* Nothing leaves the line at its front.                                   *)
LEMMA InLineStays ==
  ASSUME TypeOK, NEW s \in Streams, InLine(s), Window(0),
         Live(s)' => Live(s) /\ Base(s)' = Base(s),
         taken'[s] \in Nat, taken[s] <= taken'[s],
         srcClosed[s] => srcClosed'[s] /\ taken'[s] = taken[s],
         \A m \in Msgs : chid'[s] = m.id /\ hpc'[s] = "registered" => About(m, s),
         conn' = "up" => conn = "up" /\ Len(Line') = Len(Line) /\ taken'[s] = taken[s]
  PROVE  InLine(s)'
<1> SUFFICES ASSUME Live(s)'
             PROVE  /\ \A i \in 1 .. Len(Line') :
                         /\ IsValue(Line[i], s)' =>
                              /\ Line'[i].data = <<s, Base(s)' + ValuesTo(Line', s, i)>>
                              /\ Base(s)' + ValuesTo(Line', s, i) <= taken'[s]
                         /\ (Line'[i].kind = "close" /\ About(Line[i], s)') =>
                              srcClosed'[s] /\ Base(s)' + ValuesTo(Line', s, i) = taken'[s]
                    /\ conn' = "up" => Base(s)' + ValuesTo(Line', s, Len(Line')) = taken'[s]
  BY DEF InLine, ValuesTo, ValuePos, IsValue
<1>1. Live(s) /\ Base(s)' = Base(s) /\ Base(s) \in Nat /\ taken[s] \in Nat
  BY BaseAre
<1>2. \A i \in 1 .. Len(Line') : i \in 1 .. Len(Line) /\ Line'[i] = Line[i] /\ Line[i] \in Msgs
  <2>1. \A i \in 1 .. Len(Line') : i \in 1 .. Len(Line) /\ Line'[i] = Line[i]
    BY DEF Window
  <2> QED  BY <2>1, LineAre, ElementOfSeq
<1>3. \A i \in 0 .. Len(Line') : ValuesTo(Line', s, i) = ValuesTo(Line, s, i) /\ ValuesTo(Line, s, i) \in Nat
  <2> SUFFICES ASSUME NEW i \in 0 .. Len(Line')
               PROVE  ValuesTo(Line', s, i) = ValuesTo(Line, s, i) /\ ValuesTo(Line, s, i) \in Nat
    OBVIOUS
  <2>1. i \in Nat /\ \A j \in 1 .. i : Line'[j] = Line[j]
    BY <1>2 DEF Window
  <2> QED  BY <2>1, ValuesSame, ValuesAre
<1>4. ASSUME NEW i \in 1 .. Len(Line'), IsValue(Line[i], s)'
      PROVE  /\ Line'[i].data = <<s, Base(s)' + ValuesTo(Line', s, i)>>
             /\ Base(s)' + ValuesTo(Line', s, i) <= taken'[s]
  <2>1. i \in 0 .. Len(Line') /\ IsValue(Line[i], s)
    BY <1>2, <1>4 DEF IsValue
  <2>2. Line[i].data = <<s, Base(s) + ValuesTo(Line, s, i)>> /\ Base(s) + ValuesTo(Line, s, i) <= taken[s]
    BY <1>1, <1>2, <2>1 DEF InLine
  <2> QED  BY <1>1, <1>2, <1>3, <2>1, <2>2
<1>5. ASSUME NEW i \in 1 .. Len(Line'), Line'[i].kind = "close", About(Line[i], s)'
      PROVE  srcClosed'[s] /\ Base(s)' + ValuesTo(Line', s, i) = taken'[s]
  <2>1. i \in 0 .. Len(Line') /\ Line[i].kind = "close" /\ About(Line[i], s)
    BY <1>2, <1>5 DEF About
  <2>2. srcClosed[s] /\ Base(s) + ValuesTo(Line, s, i) = taken[s]
    BY <1>1, <1>2, <2>1 DEF InLine
  <2> QED  BY <1>1, <1>2, <1>3, <2>1, <2>2
<1>6. ASSUME conn' = "up" PROVE Base(s)' + ValuesTo(Line', s, Len(Line')) = taken'[s]
  <2>1. Len(Line') \in 0 .. Len(Line')
    BY DEF Window
  <2> QED  BY <1>1, <1>3, <1>6, <2>1 DEF InLine
<1> QED  BY <1>4, <1>5, <1>6

(* W takes a message: what was one further is now next.                    *)
LEMMA InLineTail ==
  ASSUME TypeOK, NEW s \in Streams, InLine(s), Line # <<>>, Line' = Tail(Line),
         Live(s)' => Live(s) /\ Base(s)' = Base(s) + (IF IsValue(Line[1], s) THEN 1 ELSE 0),
         UNCHANGED <<taken, srcClosed, chid, hpc, conn>>
  PROVE  InLine(s)'
<1> SUFFICES ASSUME Live(s)'
             PROVE  /\ \A i \in 1 .. Len(Line') :
                         /\ IsValue(Line[i], s)' =>
                              /\ Line'[i].data = <<s, Base(s)' + ValuesTo(Line', s, i)>>
                              /\ Base(s)' + ValuesTo(Line', s, i) <= taken'[s]
                         /\ (Line'[i].kind = "close" /\ About(Line[i], s)') =>
                              srcClosed'[s] /\ Base(s)' + ValuesTo(Line', s, i) = taken'[s]
                    /\ conn' = "up" => Base(s)' + ValuesTo(Line', s, Len(Line')) = taken'[s]
  BY DEF InLine, ValuesTo, ValuePos, IsValue
<1> DEFINE first == IF IsValue(Line[1], s) THEN 1 ELSE 0
<1>1. Live(s) /\ Base(s)' = Base(s) + first /\ Base(s) \in Nat /\ taken[s] \in Nat /\ first \in Nat
  BY BaseAre
<1> HIDE DEF first
<1>2. /\ \A i \in 1 .. Len(Line') : i + 1 \in 1 .. Len(Line) /\ Line'[i] = Line[i + 1]
      /\ Len(Line') \in Nat /\ Len(Line') + 1 = Len(Line)
  BY WindowTail DEF Window
<1>3. \A i \in 0 .. Len(Line') : /\ ValuesTo(Line, s, i + 1) = ValuesTo(Line', s, i) + first
                                 /\ ValuesTo(Line', s, i) \in Nat
  <2> SUFFICES ASSUME NEW i \in 0 .. Len(Line')
               PROVE  /\ ValuesTo(Line, s, i + 1) = ValuesTo(Line', s, i) + first
                      /\ ValuesTo(Line', s, i) \in Nat
    OBVIOUS
  <2>1. i \in Nat /\ \A j \in 1 .. i : Line'[j] = Line[j + 1]
    BY <1>2
  <2> QED  BY <2>1, ValuesTail, ValuesAre DEF first
<1>4. ASSUME NEW i \in 1 .. Len(Line'), IsValue(Line[i], s)'
      PROVE  /\ Line'[i].data = <<s, Base(s)' + ValuesTo(Line', s, i)>>
             /\ Base(s)' + ValuesTo(Line', s, i) <= taken'[s]
  <2>1. i \in 0 .. Len(Line') /\ IsValue(Line[i + 1], s)
    BY <1>2, <1>4 DEF IsValue
  <2>2. /\ Line[i + 1].data = <<s, Base(s) + ValuesTo(Line, s, i + 1)>>
        /\ Base(s) + ValuesTo(Line, s, i + 1) <= taken[s]
    BY <1>1, <1>2, <2>1 DEF InLine
  <2>3. Base(s) + ValuesTo(Line, s, i + 1) = Base(s)' + ValuesTo(Line', s, i)
    BY <1>1, <1>3, <2>1
  <2> QED  BY <1>2, <2>2, <2>3
<1>5. ASSUME NEW i \in 1 .. Len(Line'), Line'[i].kind = "close", About(Line[i], s)'
      PROVE  srcClosed'[s] /\ Base(s)' + ValuesTo(Line', s, i) = taken'[s]
  <2>1. i \in 0 .. Len(Line') /\ Line[i + 1].kind = "close" /\ About(Line[i + 1], s)
    BY <1>2, <1>5 DEF About
  <2>2. srcClosed[s] /\ Base(s) + ValuesTo(Line, s, i + 1) = taken[s]
    BY <1>1, <1>2, <2>1 DEF InLine
  <2> QED  BY <1>1, <1>3, <2>1, <2>2
<1>6. ASSUME conn' = "up" PROVE Base(s)' + ValuesTo(Line', s, Len(Line')) = taken'[s]
  <2>1. Len(Line') \in 0 .. Len(Line')
    BY <1>2
  <2>2. Base(s) + ValuesTo(Line, s, Len(Line)) = taken[s]
    BY <1>1, <1>6 DEF InLine
  <2>3. ValuesTo(Line, s, Len(Line)) = ValuesTo(Line', s, Len(Line')) + first
    BY <1>2, <1>3, <2>1
  <2> QED  BY <1>1, <1>3, <2>1, <2>2, <2>3
<1> QED  BY <1>4, <1>5, <1>6

(* The forwarder sends m: the next value of its stream, or the end.        *)
LEMMA InLineGrows ==
  ASSUME TypeOK, NEW s \in Streams, InLine(s), NEW m \in Msgs, conn = "up", conn' = "up",
         Line' = Append(Line, m), Live(s)' => Live(s) /\ Base(s)' = Base(s),
         taken'[s] = taken[s] + (IF IsValue(m, s) THEN 1 ELSE 0),
         IsValue(m, s) => m.data = <<s, taken[s] + 1>> /\ ~srcClosed[s],
         m.kind = "close" /\ m.id = chid[s] => srcClosed[s],
         UNCHANGED <<srcClosed, chid>>, hpc'[s] = "registered" => hpc[s] = "registered"
  PROVE  InLine(s)'
<1> SUFFICES ASSUME Live(s)'
             PROVE  /\ \A i \in 1 .. Len(Line') :
                         /\ IsValue(Line[i], s)' =>
                              /\ Line'[i].data = <<s, Base(s)' + ValuesTo(Line', s, i)>>
                              /\ Base(s)' + ValuesTo(Line', s, i) <= taken'[s]
                         /\ (Line'[i].kind = "close" /\ About(Line[i], s)') =>
                              srcClosed'[s] /\ Base(s)' + ValuesTo(Line', s, i) = taken'[s]
                    /\ conn' = "up" => Base(s)' + ValuesTo(Line', s, Len(Line')) = taken'[s]
  BY DEF InLine, ValuesTo, ValuePos, IsValue
<1> DEFINE n == Len(Line)
           new == IF IsValue(m, s) THEN 1 ELSE 0
<1>1. /\ Live(s) /\ Base(s)' = Base(s) /\ Base(s) \in Nat /\ taken[s] \in Nat
      /\ new \in Nat /\ taken'[s] = taken[s] + new
  BY BaseAre
<1>2. /\ n \in Nat /\ Len(Line') = n + 1 /\ Line'[n + 1] = m
      /\ \A i \in 1 .. n : Line'[i] = Line[i]
  BY LineAre, AppendTo
<1> HIDE DEF n
<1>3. \A i \in 0 .. n : ValuesTo(Line', s, i) = ValuesTo(Line, s, i) /\ ValuesTo(Line, s, i) \in Nat
  <2> SUFFICES ASSUME NEW i \in 0 .. n
               PROVE  ValuesTo(Line', s, i) = ValuesTo(Line, s, i) /\ ValuesTo(Line, s, i) \in Nat
    OBVIOUS
  <2>1. i \in Nat /\ \A j \in 1 .. i : Line'[j] = Line[j]
    BY <1>2
  <2> QED  BY <2>1, ValuesSame, ValuesAre
<1>4. Base(s) + ValuesTo(Line, s, n) = taken[s]
  BY <1>1 DEF InLine, n
<1>5. Base(s)' + ValuesTo(Line', s, n + 1) = taken'[s]
  <2>1. n \in 0 .. n
    BY <1>2
  <2>2. ValuesTo(Line', s, n + 1) = ValuesTo(Line', s, n) + new
    BY <1>2, ValuesNext
  <2> HIDE DEF new
  <2> QED  BY <1>1, <1>3, <1>4, <2>1, <2>2
<1>6. ASSUME NEW i \in 1 .. n + 1, IsValue(Line[i], s)'
      PROVE  /\ Line'[i].data = <<s, Base(s)' + ValuesTo(Line', s, i)>>
             /\ Base(s)' + ValuesTo(Line', s, i) <= taken'[s]
  <2>1. CASE i = n + 1
    <3>1. IsValue(m, s)
      BY <1>2, <1>6, <2>1 DEF IsValue
    <3>2. m.data = <<s, taken'[s]>>
      BY <3>1
    <3>3. Line'[i].data = <<s, Base(s)' + ValuesTo(Line', s, i)>>
      BY <1>2, <1>5, <2>1, <3>2
    <3> QED  BY <1>1, <1>5, <2>1, <3>3
  <2>2. CASE i \in 1 .. n
    <3>1. i \in 0 .. n /\ IsValue(Line[i], s) /\ Line'[i] = Line[i]
      BY <1>2, <1>6, <2>2 DEF IsValue
    <3>2. Line[i].data = <<s, Base(s) + ValuesTo(Line, s, i)>> /\ Base(s) + ValuesTo(Line, s, i) <= taken[s]
      BY <1>1, <2>2, <3>1 DEF InLine, n
    <3>3. Base(s)' + ValuesTo(Line', s, i) = Base(s) + ValuesTo(Line, s, i)
      BY <1>1, <1>3, <3>1
    <3>4. Base(s) + ValuesTo(Line, s, i) <= taken'[s]
      BY <1>1, <1>3, <3>1, <3>2 DEF new
    <3> QED  BY <3>1, <3>2, <3>3, <3>4
  <2> QED  BY <1>2, <2>1, <2>2
<1>7. ASSUME NEW i \in 1 .. n + 1, Line'[i].kind = "close", About(Line[i], s)'
      PROVE  srcClosed'[s] /\ Base(s)' + ValuesTo(Line', s, i) = taken'[s]
  <2>1. CASE i = n + 1
    <3>1. m.kind = "close" /\ m.id = chid[s]
      BY <1>2, <1>7, <2>1 DEF About
    <3> QED  BY <1>5, <2>1, <3>1
  <2>2. CASE i \in 1 .. n
    <3>1. i \in 0 .. n /\ Line[i].kind = "close" /\ About(Line[i], s)
      BY <1>2, <1>7, <2>2 DEF About
    <3>2. srcClosed[s] /\ Base(s) + ValuesTo(Line, s, i) = taken[s]
      BY <1>1, <2>2, <3>1 DEF InLine, n
    <3>3. taken'[s] = taken[s]
      BY <1>1, <3>2
    <3> QED  BY <1>1, <1>3, <3>1, <3>2, <3>3
  <2> QED  BY <1>2, <2>1, <2>2
<1> QED  BY <1>2, <1>5, <1>6, <1>7

-----------------------------------------------------------------------------
(* Steps that neither take a message out of the line, nor put one in, nor  *)
(* move a value                                                            *)

Quiet ==
  /\ KeepsIds /\ Distinct'
  /\ \A s \in Streams : hpc'[s] = "registered" => hpc[s] = "registered"
  /\ UNCHANGED <<taken, cases, got, buf, incoming>>
  /\ \A s \in Streams : /\ srcClosed[s] => srcClosed'[s]
                        /\ ctxDone[s] => ctxDone'[s]
  /\ \A i \in Ids : handlers'[i] \in {handlers[i], None}
  /\ Window(0) /\ conn' \in {conn, "down"} /\ (conn' = "up" => Line' = Line)
  /\ rpc' \notin {"read", "push"} => conn' = "down"
  /\ wpc = "value" \/ wpc' \in {"value", "close"} => UNCHANGED <<wpc, whold, wfor>>
  /\ wfor' \in {wfor, None}

QuietCloses(s) ==
  /\ inClosed[s] => inClosed'[s]
  /\ (inClosed'[s] /\ ~ctxDone[s] /\ conn' = "up") =>
       inClosed[s] \/ (srcClosed[s] /\ Handed(s) = taken[s])
  /\ inNil'[s] => inNil[s] \/ (inClosed'[s] /\ incoming[s] = <<>>)

LEMMA QuietKeeps ==
  ASSUME TableInv, Ordered, Quiet, \A s \in Streams : QuietCloses(s)
  PROVE  Ordered'
<1>1. TypeOK /\ handlers \in [Ids -> Streams \cup {None}]
  BY DEF TableInv, TypeOK, QueueTypes
<1>2. \A s \in Streams : Handed(s)' = Handed(s) /\ Base(s)' = Base(s)
  <2>1. \A s \in Streams : Handed(s)' = Handed(s)
    BY DEF Quiet, Handed
  <2>2. \A s \in Streams : (wpc' = "value" /\ wfor' = s) <=> (wpc = "value" /\ wfor = s)
    BY DEF Quiet
  <2>3. \A s \in Streams : /\ Base(s) = Handed(s) + (IF wpc = "value" /\ wfor = s THEN 1 ELSE 0)
                           /\ Base(s)' = Handed(s)' + (IF wpc' = "value" /\ wfor' = s THEN 1 ELSE 0)
    BY DEF Base
  <2> QED  BY <2>1, <2>2, <2>3
<1>3. Settled'
  <2>1. \A s \in Streams : hpc'[s] # "registered" =>
          taken'[s] = 0 /\ got'[s] = <<>> /\ buf'[s] = <<>> /\ incoming'[s] = <<>>
    BY DEF Ordered, Settled, Quiet, KeepsIds
  <2>2. \A i \in 1 .. Len(cases') : hpc'[cases'[i]] = "registered"
    <3>1. \A i \in 1 .. Len(cases) : cases[i] \in Streams /\ hpc[cases[i]] = "registered"
      BY <1>1, ElementOfSeq DEF TypeOK, FwdTypes, Ordered, Settled
    <3> QED  BY <3>1 DEF Quiet, KeepsIds
  <2>3. \A i \in Ids : handlers'[i] # None => hpc'[handlers'[i]] = "registered"
    BY <1>1 DEF Ordered, Settled, Quiet, KeepsIds
  <2>4. wfor' # None => hpc'[wfor'] = "registered"
    BY <1>1 DEF TypeOK, WTypes, Ordered, Settled, Quiet, KeepsIds
  <2> QED  BY <2>1, <2>2, <2>3, <2>4 DEF Settled, Quiet
<1>4. Addressed'
  BY <1>1, AddressedWindow DEF Ordered, Quiet
<1>5. InHand'
  <2>1. ASSUME wpc' = "value" PROVE whold'.data = <<wfor', Handed(wfor)' + 1>>
    <3>1. wpc = "value" /\ UNCHANGED <<whold, wfor>> /\ wfor \in Streams
      BY <1>1, <2>1 DEF Quiet, TypeOK, WTypes
    <3>2. Handed(wfor)' = Handed(wfor)
      BY <3>1 DEF Quiet, Handed
    <3> QED  BY <3>1, <3>2 DEF Ordered, InHand
  <2>2. ASSUME wpc' = "close", ~ctxDone'[wfor'] PROVE srcClosed'[wfor'] /\ Base(wfor)' = taken'[wfor']
    <3>1. wpc = "close" /\ UNCHANGED <<wpc, wfor>> /\ wfor \in Streams /\ ~ctxDone[wfor]
      BY <1>1, <2>2 DEF Quiet, TypeOK, WTypes
    <3>2. Base(wfor)' = Base(wfor)
      BY <3>1 DEF Quiet, Base, Handed
    <3> QED  BY <3>1, <3>2 DEF Ordered, InHand, Quiet
  <2> QED  BY <2>1, <2>2 DEF InHand
<1>6. ASSUME NEW s \in Streams PROVE Kept(s)'
  BY <1>2 DEF Ordered, Kept, Quiet
<1>7. ASSUME NEW s \in Streams PROVE InLine(s)'
  <2>1. \A i \in Ids : handlers'[i] = s => Reachable(s)
    BY OutChansAssumption DEF Quiet, Reachable
  <2>2. Reachable(s)' => Reachable(s)
    BY <2>1, ReachableShrinks DEF Quiet
  <2>3. Live(s)' => Live(s)
    BY <2>2 DEF Live, Quiet
  <2>4. taken'[s] = taken[s] /\ taken[s] \in Nat
    BY <1>1, BaseAre DEF Quiet
  <2>5. \A m \in Msgs : chid'[s] = m.id /\ hpc'[s] = "registered" => About(m, s)
    BY DEF About, Quiet, KeepsIds
  <2>6. conn' = "up" => conn = "up" /\ Len(Line') = Len(Line)
    BY DEF Quiet
  <2>7. /\ taken'[s] \in Nat /\ taken[s] <= taken'[s] /\ InLine(s) /\ Window(0)
        /\ srcClosed[s] => srcClosed'[s]
    BY <2>4 DEF Quiet, Ordered
  <2> QED  BY <1>1, <1>2, <2>3, <2>4, <2>5, <2>6, <2>7, InLineStays
<1>8. ASSUME NEW s \in Streams PROVE Closes(s)'
  <2>1. Closes(s) /\ QuietCloses(s) /\ Handed(s)' = Handed(s)
    BY <1>2 DEF Ordered
  <2> QED  BY <2>1 DEF Closes, QuietCloses, Quiet
<1> QED  BY <1>3, <1>4, <1>5, <1>6, <1>7, <1>8 DEF Ordered, Quiet

LEMMA SameCloses ==
  ASSUME UNCHANGED <<inClosed, inNil>>, NEW s \in Streams
  PROVE  QuietCloses(s)
  BY DEF QuietCloses

(* Most of these steps do not touch what Quiet speaks of.                  *)
LEMMA SameQuiet ==
  ASSUME TableInv, Ordered, Window(0),
         UNCHANGED <<hpc, chid, chanCtr, taken, cases, got, buf, incoming>>,
         \A s \in Streams : (srcClosed[s] => srcClosed'[s]) /\ (ctxDone[s] => ctxDone'[s]),
         \A i \in Ids : handlers'[i] \in {handlers[i], None},
         conn' \in {conn, "down"}, conn' = "up" => Line' = Line,
         rpc' \notin {"read", "push"} => rpc \notin {"read", "push"} \/ conn' = "down",
         wpc = "value" \/ wpc' \in {"value", "close"} => UNCHANGED <<wpc, whold, wfor>>,
         wfor' \in {wfor, None}
  PROVE  Quiet
<1>1. KeepsIds
  BY DEF KeepsIds
<1>2. Distinct'
  BY DEF Ordered, Distinct
<1>3. rpc' \notin {"read", "push"} => conn' = "down"
  BY DEF Ordered, Settled
<1> QED  BY <1>1, <1>2, <1>3 DEF Quiet

LEMMA EnvironmentOrdered ==
  ASSUME TableInv, Ordered, Environment
  PROVE  Ordered'
<1>0. TypeOK
  BY DEF TableInv
<1>1. ASSUME NEW s \in Streams, Call(s) PROVE Ordered'
  <2>1. /\ hpc' = [hpc EXCEPT ![s] = "ran"] /\ cpc[s] = "idle"
        /\ UNCHANGED <<chid, chanCtr, taken, srcClosed, fwdVars, writeQ, conn, handlers, frames,
                       rVars, wVars, progVars>>
    BY <1>1 DEF Call
  <2>2. hpc[s] = "idle" /\ hpc \in [Streams -> {"idle", "ran", "registering", "registered", "failed"}]
    BY <2>1 DEF TableInv, Numbered, TypeOK, SrcTypes
  <2>3. Line' = Line
    BY <2>1, LineStays DEF rVars, fwdVars
  <2>4. KeepsIds /\ \A t \in Streams : hpc'[t] = "registered" => hpc[t] = "registered"
    BY <2>1, <2>2 DEF KeepsIds
  <2>5. Distinct'
    BY <2>1 DEF Ordered, Distinct
  <2>6. rpc' \notin {"read", "push"} => conn' = "down"
    BY <2>1 DEF Ordered, Settled, rVars
  <2>7. Quiet
    BY <1>0, <2>1, <2>3, <2>4, <2>5, <2>6, WindowStays DEF Quiet, fwdVars, wVars, progVars, pumpVars
  <2>8. \A t \in Streams : QuietCloses(t)
    BY <2>1, SameCloses DEF progVars, pumpVars
  <2> QED  BY <2>7, <2>8, QuietKeeps
<1>2. ASSUME NEW s \in Streams, SourceCloses(s) PROVE Ordered'
  <2>1. /\ srcClosed' = [srcClosed EXCEPT ![s] = TRUE]
        /\ UNCHANGED <<hpc, chid, chanCtr, taken, fwdVars, netVars>>
    BY <1>2 DEF SourceCloses
  <2>2. Line' = Line
    BY <2>1, LineStays DEF fwdVars, netVars, clientVars, loopVars, rVars
  <2>3. \A t \in Streams : srcClosed[t] => srcClosed'[t]
    BY <1>0, <2>1 DEF TypeOK, SrcTypes
  <2>4. Quiet
    BY <1>0, <2>1, <2>2, <2>3, WindowStays, SameQuiet
    DEF fwdVars, netVars, clientVars, loopVars, progVars, pumpVars, rVars, wVars
  <2>5. \A t \in Streams : QuietCloses(t)
    BY <2>1, SameCloses DEF netVars, clientVars, progVars, pumpVars
  <2> QED  BY <2>4, <2>5, QuietKeeps
<1>3. ASSUME NEW s \in Streams, CtxEnds(s) PROVE Ordered'
  <2>1. /\ ctxDone' = [ctxDone EXCEPT ![s] = TRUE]
        /\ UNCHANGED <<farVars, loopVars, pumpVars>>
    BY <1>3 DEF CtxEnds
  <2>2. Line' = Line
    BY <2>1, LineStays DEF farVars, serverVars, fwdVars, loopVars, rVars
  <2>3. \A t \in Streams : ctxDone[t] => ctxDone'[t]
    BY <1>0, <2>1 DEF TypeOK
  <2>4. Quiet
    BY <1>0, <2>1, <2>2, <2>3, WindowStays, SameQuiet
    DEF farVars, serverVars, srcVars, fwdVars, loopVars, pumpVars, rVars, wVars
  <2>5. \A t \in Streams : QuietCloses(t)
    BY <2>1, SameCloses DEF pumpVars
  <2> QED  BY <2>4, <2>5, QuietKeeps
<1>4. CASE ConnEnds
  <2>1. conn = "up" /\ conn' = "down" /\ UNCHANGED <<serverVars, writeQ, clientVars>>
    BY <1>4 DEF ConnEnds
  <2>2. Window(0)
    <3>1. UNCHANGED <<frames, rpc, rhold>>
      BY <2>1 DEF clientVars, loopVars, rVars
    <3>2. /\ Len(Line') <= Len(Line) /\ Len(Line') \in Nat /\ Len(Line) \in Nat
          /\ \A i \in 1 .. Len(Line') : Line'[i] = Line[i]
      BY <1>0, <2>1, <3>1, LineCut, LineAre, LenProperties
    <3> QED  BY <3>2 DEF Window
  <2>3. Quiet
    BY <2>1, <2>2, SameQuiet
    DEF serverVars, srcVars, fwdVars, clientVars, loopVars, progVars, pumpVars, rVars, wVars
  <2>4. \A t \in Streams : QuietCloses(t)
    BY <2>1, SameCloses DEF clientVars, progVars, pumpVars
  <2> QED  BY <2>3, <2>4, QuietKeeps
<1> QED  BY <1>1, <1>2, <1>3, <1>4 DEF Environment

(* A new id is nobody's: it exceeds all that were given.                   *)
LEMMA HandleChanOutOrdered ==
  ASSUME TableInv, Ordered, NEW s \in Streams, HandleChanOut(s)
  PROVE  Ordered'
<1>1. /\ hpc[s] = "ran" /\ hpc' = [hpc EXCEPT ![s] = "registering"]
      /\ fpc' = IF fpc = "off" THEN "select" ELSE fpc
      /\ chanCtr' = chanCtr + 1 /\ chid' = [chid EXCEPT ![s] = chanCtr + 1]
      /\ UNCHANGED <<taken, srcClosed, fhold, cases, caseToID, netVars>>
  BY DEF HandleChanOut
<1>2. /\ TypeOK /\ chanCtr \in Nat /\ \A t \in Streams : chid[t] \in Nat
      /\ hpc \in [Streams -> {"idle", "ran", "registering", "registered", "failed"}]
      /\ chid \in [Streams -> 0 .. Cardinality(Streams)]
  BY IdsAre DEF TableInv, TypeOK, SrcTypes
<1>3. \A t \in Streams : chid'[t] = IF t = s THEN chanCtr + 1 ELSE chid[t]
  BY <1>1, <1>2
<1>4. Distinct'
  <2>1. \A t \in Streams : chid[t] <= chanCtr
    BY DEF Ordered, Distinct
  <2>2. \A t \in Streams : chid'[t] <= chanCtr + 1
    BY <1>2, <1>3, <2>1
  <2>3. \A t, u \in Streams : chid'[t] = chid'[u] /\ chid'[t] # 0 => t = u
    BY <1>2, <1>3, <2>1 DEF Ordered, Distinct
  <2> QED  BY <1>1, <2>2, <2>3 DEF Distinct
<1>5. Line' = Line
  BY <1>1, LineStays DEF netVars, clientVars, loopVars, rVars
<1>6. KeepsIds /\ \A t \in Streams : hpc'[t] = "registered" => hpc[t] = "registered"
  BY <1>1, <1>2, <1>3 DEF KeepsIds
<1>7. rpc' \notin {"read", "push"} => conn' = "down"
  BY <1>1 DEF Ordered, Settled, netVars, clientVars, loopVars, rVars
<1>8. Quiet
  BY <1>1, <1>2, <1>4, <1>5, <1>6, <1>7, WindowStays
  DEF Quiet, netVars, clientVars, loopVars, progVars, pumpVars, wVars
<1>9. \A t \in Streams : QuietCloses(t)
  BY <1>1, SameCloses DEF netVars, clientVars, progVars, pumpVars
<1> QED  BY <1>8, <1>9, QuietKeeps

LEMMA ServerSmallOrdered ==
  ASSUME TableInv, Ordered,
         (\E s \in Streams : ChanOutFails(s)) \/ FPut \/ FExit \/ ServerExits \/ ServerWritesInVain
  PROVE  Ordered'
<1>0. TypeOK
  BY DEF TableInv
<1>1. ASSUME NEW s \in Streams, ChanOutFails(s) PROVE Ordered'
  <2>1. /\ hpc[s] = "registering" /\ hpc' = [hpc EXCEPT ![s] = "failed"]
        /\ UNCHANGED <<chid, chanCtr, taken, srcClosed, fwdVars, netVars>>
    BY <1>1 DEF ChanOutFails
  <2>2. hpc \in [Streams -> {"idle", "ran", "registering", "registered", "failed"}]
    BY <1>0 DEF TypeOK, SrcTypes
  <2>3. Line' = Line
    BY <2>1, LineStays DEF fwdVars, netVars, clientVars, loopVars, rVars
  <2>4. KeepsIds /\ \A t \in Streams : hpc'[t] = "registered" => hpc[t] = "registered"
    BY <2>1, <2>2 DEF KeepsIds
  <2>5. Distinct'
    BY <2>1 DEF Ordered, Distinct
  <2>6. rpc' \notin {"read", "push"} => conn' = "down"
    BY <2>1 DEF Ordered, Settled, netVars, clientVars, loopVars, rVars
  <2>7. Quiet
    BY <1>0, <2>1, <2>3, <2>4, <2>5, <2>6, WindowStays
    DEF Quiet, fwdVars, netVars, clientVars, loopVars, progVars, pumpVars, wVars
  <2>8. \A t \in Streams : QuietCloses(t)
    BY <2>1, SameCloses DEF netVars, clientVars, progVars, pumpVars
  <2> QED  BY <2>7, <2>8, QuietKeeps
<1>2. ASSUME FPut \/ FExit \/ ServerExits \/ ServerWritesInVain PROVE Ordered'
  <2>1. UNCHANGED <<srcVars, cases, conn, clientVars>>
    BY <1>2 DEF FPut, FExit, ServerExits, ServerWritesInVain, netVars, serverVars, fwdVars
  <2>2. Line' = Line
    <3>1. CASE FPut
      BY <1>0, <3>1, LineMoves
    <3>2. CASE FExit \/ ServerExits \/ ServerWritesInVain
      <4>1. /\ UNCHANGED fhold /\ (fpc = "put" \/ fpc' = "put" => UNCHANGED fpc)
            /\ conn = "up" => writeQ' = writeQ
        BY <3>2 DEF FExit, ServerExits, ServerWritesInVain, serverVars, fwdVars, netVars
      <4> QED  BY <2>1, <4>1, LineStays DEF clientVars, loopVars, rVars
    <3> QED  BY <1>2, <3>1, <3>2
  <2>3. Quiet
    BY <1>0, <2>1, <2>2, WindowStays, SameQuiet
    DEF srcVars, clientVars, loopVars, progVars, pumpVars, rVars, wVars
  <2>4. \A t \in Streams : QuietCloses(t)
    BY <2>1, SameCloses DEF clientVars, progVars, pumpVars
  <2> QED  BY <2>3, <2>4, QuietKeeps
<1> QED  BY <1>1, <1>2

(* R: what it reads moves on, and its cleanup only empties the table and   *)
(* closes channels when the connection is gone.                            *)
LEMMA ROrdered ==
  ASSUME TableInv, Ordered, RStep
  PROVE  crashed' \/ Ordered'
<1>0. TypeOK /\ handlers \in [Ids -> Streams \cup {None}]
  BY DEF TableInv, TypeOK, QueueTypes
<1>1. ASSUME RRead \/ RPush \/ RLeave \/ RChansDone \/ RAnswer \/ \E i \in Ids : RPick(i)
      PROVE  Ordered'
  <2>1. UNCHANGED <<serverVars, conn, handlers, wVars, progVars>>
    BY <1>1 DEF RRead, RPush, RLeave, RChansDone, RAnswer, RPick, farVars
  <2>2. Line' = Line
    <3>1. CASE RRead \/ RPush
      BY <1>0, <3>1, LineMoves
    <3>2. CASE ~(RRead \/ RPush)
      <4>1. /\ UNCHANGED <<frames, writeQ, rhold>> /\ rpc # "push" /\ rpc' # "push"
        BY <1>1, <3>2 DEF RLeave, RChansDone, RAnswer, RPick, farVars
      <4> QED  BY <2>1, <4>1, LineStays DEF serverVars, fwdVars
    <3> QED  BY <3>1, <3>2
  <2>3. rpc' \notin {"read", "push"} => rpc \notin {"read", "push"} \/ conn' = "down"
    BY <1>1 DEF RRead, RPush, RLeave, RChansDone, RAnswer, RPick, farVars
  <2>4. Quiet
    BY <1>0, <2>1, <2>2, <2>3, WindowStays, SameQuiet
    DEF serverVars, srcVars, fwdVars, progVars, pumpVars, wVars
  <2>5. \A t \in Streams : QuietCloses(t)
    BY <2>1, SameCloses DEF progVars, pumpVars
  <2> QED  BY <2>4, <2>5, QuietKeeps
<1>2. CASE RLookup
  <2>1. /\ rpc = "look" /\ rpc' = "close" /\ handlers' = [handlers EXCEPT ![rid] = None]
        /\ UNCHANGED <<farVars, callVars, frames, rhold, rtodo, wVars, pumpVars, ctxDone>>
    BY <1>2 DEF RLookup
  <2>2. Line' = Line
    BY <2>1, LineStays DEF farVars, serverVars, fwdVars
  <2>3. \A i \in Ids : handlers'[i] \in {handlers[i], None}
    BY <1>0, <2>1
  <2>4. Quiet
    BY <1>0, <2>1, <2>2, <2>3, WindowStays, SameQuiet
    DEF farVars, serverVars, srcVars, fwdVars, pumpVars, wVars
  <2>5. \A t \in Streams : QuietCloses(t)
    BY <2>1, SameCloses DEF pumpVars
  <2> QED  BY <2>4, <2>5, QuietKeeps
<1>3. ASSUME RClose, ~crashed' PROVE Ordered'
  <2>1. /\ rpc = "close" /\ rpc' = "chans" /\ CloseIncoming(rfor)
        /\ UNCHANGED <<farVars, callVars, handlers, frames, rhold, wVars, incoming, inNil, buf, pump,
                       got, ctxDone>>
    BY <1>3 DEF RClose
  <2>2. conn = "down" /\ conn' = "down"
    BY <2>1 DEF Ordered, Settled, farVars
  <2>3. inClosed' = [inClosed EXCEPT ![rfor] = TRUE] /\ inClosed \in [Streams -> BOOLEAN]
    BY <1>0, <1>3, <2>1 DEF CloseIncoming, TypeOK, PumpTypes
  <2>4. Line' = Line
    BY <2>1, LineStays DEF farVars, serverVars, fwdVars
  <2>5. Quiet
    BY <1>0, <2>1, <2>2, <2>4, WindowStays, SameQuiet
    DEF farVars, serverVars, srcVars, fwdVars, wVars
  <2>6. \A t \in Streams : inClosed[t] => inClosed'[t]
    BY <2>3
  <2>7. \A t \in Streams : QuietCloses(t)
    BY <2>1, <2>2, <2>6 DEF QuietCloses
  <2> QED  BY <2>5, <2>7, QuietKeeps
<1> QED  BY <1>1, <1>2, <1>3 DEF RStep

(* W is done with a frame, other than a value.                             *)
LEMMA WFinishesOrdered ==
  ASSUME TableInv, Ordered, WReady \/ WClose \/ WLeave
  PROVE  crashed' \/ Ordered'
<1>0. TypeOK /\ handlers \in [Ids -> Streams \cup {None}]
  BY DEF TableInv, TypeOK, QueueTypes
<1>1. ASSUME WReady \/ WLeave PROVE Ordered'
  <2>1. /\ UNCHANGED <<farVars, handlers, frames, rVars, progVars>>
        /\ wpc # "value" /\ wpc' \notin {"value", "close"} /\ wfor' \in {wfor, None}
    BY <1>1 DEF WReady, WLeave
  <2>2. Line' = Line
    BY <2>1, LineStays DEF farVars, serverVars, fwdVars, rVars
  <2>3. Quiet
    BY <1>0, <2>1, <2>2, WindowStays, SameQuiet
    DEF farVars, serverVars, srcVars, fwdVars, progVars, pumpVars, rVars
  <2>4. \A t \in Streams : QuietCloses(t)
    BY <2>1, SameCloses DEF progVars, pumpVars
  <2> QED  BY <2>3, <2>4, QuietKeeps
<1>2. ASSUME WClose, ~crashed' PROVE Ordered'
  <2>1. /\ wpc = "close" /\ wpc' = "select" /\ wfor' = None /\ CloseIncoming(wfor)
        /\ handlers' = [handlers EXCEPT ![whold.id] = None]
        /\ UNCHANGED <<farVars, callVars, frames, rVars, incoming, inNil, buf, pump, got, ctxDone>>
    BY <1>2 DEF WClose
  <2>2. /\ inClosed' = [inClosed EXCEPT ![wfor] = TRUE] /\ inClosed \in [Streams -> BOOLEAN]
        /\ wfor \in Streams
    BY <1>0, <1>2, <2>1 DEF CloseIncoming, TypeOK, PumpTypes, WTypes
  <2>3. Line' = Line
    BY <2>1, LineStays DEF farVars, serverVars, fwdVars, rVars
  <2>4. \A i \in Ids : handlers'[i] \in {handlers[i], None}
    BY <1>0, <2>1
  <2>5. Quiet
    BY <1>0, <2>1, <2>3, <2>4, WindowStays, SameQuiet
    DEF farVars, serverVars, srcVars, fwdVars, rVars
  <2>6. ~ctxDone[wfor] => srcClosed[wfor] /\ Handed(wfor) = taken[wfor]
    <3>1. Base(wfor) = Handed(wfor)
      BY <1>0, <2>1, <2>2, BaseAre
    <3> QED  BY <2>1, <3>1 DEF Ordered, InHand
  <2>7. ASSUME NEW t \in Streams PROVE QuietCloses(t)
    <3>1. CASE t = wfor
      BY <2>1, <2>2, <2>6, <3>1 DEF QuietCloses
    <3>2. CASE t # wfor
      BY <2>1, <2>2, <3>2 DEF QuietCloses
    <3> QED  BY <3>1, <3>2
  <2> QED  BY <2>5, <2>7, QuietKeeps
<1> QED  BY <1>1, <1>2

LEMMA PumpSmallOrdered ==
  ASSUME TableInv, Ordered, NEW s \in Streams, PumpSeesClose(s) \/ PumpEnds(s)
  PROVE  Ordered'
<1>0. TypeOK
  BY DEF TableInv
<1>1. UNCHANGED <<farVars, loopVars, incoming, inClosed, buf, got, ctxDone>>
  BY DEF PumpSeesClose, PumpEnds
<1>2. Line' = Line
  BY <1>1, LineStays DEF farVars, serverVars, fwdVars, loopVars, rVars
<1>3. Quiet
  BY <1>0, <1>1, <1>2, WindowStays, SameQuiet
  DEF farVars, serverVars, srcVars, fwdVars, loopVars, rVars, wVars
<1>4. ASSUME NEW t \in Streams PROVE QuietCloses(t)
  <2>1. inNil'[t] => inNil[t] \/ (inClosed[t] /\ incoming[t] = <<>>)
    BY <1>0 DEF PumpSeesClose, PumpEnds, TypeOK, PumpTypes
  <2> QED  BY <1>1, <2>1 DEF QuietCloses
<1> QED  BY <1>3, <1>4, QuietKeeps

-----------------------------------------------------------------------------
(* A value moves on to the program                                         *)

LEMMA HeadMoves ==
  ASSUME NEW q \in Seq(Values), NEW r \in Seq(Values), r # <<>>
  PROVE  /\ Len(Append(q, Head(r))) = Len(q) + 1 /\ Len(q) \in Nat
         /\ Append(q, Head(r))[Len(q) + 1] = r[1]
         /\ \A n \in 1 .. Len(q) : Append(q, Head(r))[n] = q[n]
         /\ Len(Tail(r)) = Len(r) - 1 /\ Len(r) \in Nat \ {0}
         /\ \A n \in 1 .. Len(r) - 1 : Tail(r)[n] = r[n + 1]
<1>1. /\ Head(r) \in Values /\ Len(Tail(r)) = Len(r) - 1 /\ Len(r) \in Nat \ {0}
      /\ Head(r) = r[1] /\ \A n \in 1 .. Len(r) - 1 : Tail(r)[n] = r[n + 1]
  BY TailOf
<1>2. /\ Len(Append(q, Head(r))) = Len(q) + 1 /\ Len(q) \in Nat
      /\ Append(q, Head(r))[Len(q) + 1] = Head(r)
      /\ \A n \in 1 .. Len(q) : Append(q, Head(r))[n] = q[n]
  BY <1>1, AppendTo
<1> QED  BY <1>1, <1>2

(* Its place among the values of s is the same in the next container.      *)
LEMMA ProgramOrdered ==
  ASSUME TableInv, Ordered, NEW s \in Streams, PumpTake(s) \/ Receive(s)
  PROVE  Ordered'
<1>0. TypeOK
  BY DEF TableInv
<1>1. UNCHANGED <<farVars, loopVars, inClosed, inNil, ctxDone>>
  BY DEF PumpTake, Receive
<1>2. /\ incoming \in [Streams -> Seq(Values)] /\ buf \in [Streams -> Seq(Values)]
      /\ got \in [Streams -> Seq(Values)]
      /\ incoming[s] \in Seq(Values) /\ buf[s] \in Seq(Values) /\ got[s] \in Seq(Values)
  BY <1>0 DEF TypeOK, PumpTypes
<1>3. Kept(s) /\ Handed(s) = Len(got[s]) + Len(buf[s]) + Len(incoming[s]) /\ InLine(s) /\ Closes(s)
  BY <1>0, BaseAre DEF Ordered
<1>4. \A t \in Streams \ {s} :
        incoming'[t] = incoming[t] /\ buf'[t] = buf[t] /\ got'[t] = got[t]
  BY <1>2 DEF PumpTake, Receive
<1>5. /\ Len(got'[s]) + Len(buf'[s]) + Len(incoming'[s]) = Handed(s)
      /\ \A n \in 1 .. Len(got'[s]) : got'[s][n] = <<s, n>>
      /\ \A n \in 1 .. Len(buf'[s]) : buf'[s][n] = <<s, Len(got'[s]) + n>>
      /\ \A n \in 1 .. Len(incoming'[s]) : incoming'[s][n] = <<s, Len(got'[s]) + Len(buf'[s]) + n>>
      /\ incoming[s] = <<>> => incoming'[s] = <<>>
  <2>1. CASE PumpTake(s)
    <3>1. /\ incoming[s] # <<>> /\ buf'[s] = Append(buf[s], Head(incoming[s]))
          /\ incoming'[s] = Tail(incoming[s]) /\ got'[s] = got[s]
      BY <1>2, <2>1 DEF PumpTake
    <3> DEFINE g == Len(got[s])
               b == Len(buf[s])
               i == Len(incoming[s])
    <3>2. /\ Len(buf'[s]) = b + 1 /\ b \in Nat /\ g \in Nat /\ buf'[s][b + 1] = incoming[s][1]
          /\ \A n \in 1 .. b : buf'[s][n] = buf[s][n]
          /\ Len(incoming'[s]) = i - 1 /\ i \in Nat \ {0}
          /\ \A n \in 1 .. i - 1 : incoming'[s][n] = incoming[s][n + 1]
      BY <1>2, <3>1, HeadMoves
    <3>3. Len(got'[s]) = g /\ Handed(s) = g + b + i
      BY <1>3, <3>1
    <3>4. /\ \A n \in 1 .. b : buf[s][n] = <<s, g + n>>
          /\ \A n \in 1 .. i : incoming[s][n] = <<s, g + b + n>>
          /\ \A n \in 1 .. g : got[s][n] = <<s, n>>
      BY <1>3 DEF Kept
    <3> HIDE DEF g, b, i
    <3>5. \A n \in 1 .. b + 1 : buf'[s][n] = <<s, g + n>>
      <4> SUFFICES ASSUME NEW n \in 1 .. b + 1 PROVE buf'[s][n] = <<s, g + n>>
        OBVIOUS
      <4>1. CASE n = b + 1
        <5>1. incoming[s][1] = <<s, g + b + 1>> /\ g + n = g + b + 1
          BY <3>2, <3>4, <4>1
        <5> QED  BY <3>2, <4>1, <5>1
      <4>2. CASE n \in 1 .. b
        BY <3>2, <3>4, <4>2
      <4> QED  BY <3>2, <4>1, <4>2
    <3>6. \A n \in 1 .. i - 1 : incoming'[s][n] = <<s, g + (b + 1) + n>>
      <4> SUFFICES ASSUME NEW n \in 1 .. i - 1 PROVE incoming'[s][n] = <<s, g + (b + 1) + n>>
        OBVIOUS
      <4>1. n + 1 \in 1 .. i /\ g + b + (n + 1) = g + (b + 1) + n
        BY <3>2
      <4>2. incoming[s][n + 1] = <<s, g + (b + 1) + n>>
        BY <3>4, <4>1
      <4> QED  BY <3>2, <4>2
    <3>7. Len(got'[s]) + Len(buf'[s]) + Len(incoming'[s]) = Handed(s)
      BY <3>2, <3>3
    <3> QED  BY <3>1, <3>2, <3>3, <3>4, <3>5, <3>6, <3>7 DEF g
  <2>2. CASE Receive(s)
    <3>1. /\ buf[s] # <<>> /\ got'[s] = Append(got[s], Head(buf[s]))
          /\ buf'[s] = Tail(buf[s]) /\ incoming'[s] = incoming[s]
      BY <1>2, <2>2 DEF Receive
    <3> DEFINE g == Len(got[s])
               b == Len(buf[s])
               i == Len(incoming[s])
    <3>2. /\ Len(got'[s]) = g + 1 /\ g \in Nat /\ i \in Nat /\ got'[s][g + 1] = buf[s][1]
          /\ \A n \in 1 .. g : got'[s][n] = got[s][n]
          /\ Len(buf'[s]) = b - 1 /\ b \in Nat \ {0}
          /\ \A n \in 1 .. b - 1 : buf'[s][n] = buf[s][n + 1]
      BY <1>2, <3>1, HeadMoves
    <3>3. Len(incoming'[s]) = i /\ Handed(s) = g + b + i
      BY <1>3, <3>1
    <3>4. /\ \A n \in 1 .. b : buf[s][n] = <<s, g + n>>
          /\ \A n \in 1 .. i : incoming[s][n] = <<s, g + b + n>>
          /\ \A n \in 1 .. g : got[s][n] = <<s, n>>
      BY <1>3 DEF Kept
    <3> HIDE DEF g, b, i
    <3>5. \A n \in 1 .. g + 1 : got'[s][n] = <<s, n>>
      <4> SUFFICES ASSUME NEW n \in 1 .. g + 1 PROVE got'[s][n] = <<s, n>>
        OBVIOUS
      <4>1. CASE n = g + 1
        <5>1. buf[s][1] = <<s, g + 1>>
          BY <3>2, <3>4
        <5> QED  BY <3>2, <4>1, <5>1
      <4>2. CASE n \in 1 .. g
        BY <3>2, <3>4, <4>2
      <4> QED  BY <3>2, <4>1, <4>2
    <3>6. \A n \in 1 .. b - 1 : buf'[s][n] = <<s, (g + 1) + n>>
      <4> SUFFICES ASSUME NEW n \in 1 .. b - 1 PROVE buf'[s][n] = <<s, (g + 1) + n>>
        OBVIOUS
      <4>1. n + 1 \in 1 .. b /\ g + (n + 1) = (g + 1) + n
        BY <3>2
      <4>2. buf[s][n + 1] = <<s, (g + 1) + n>>
        BY <3>4, <4>1
      <4> QED  BY <3>2, <4>2
    <3>7. \A n \in 1 .. i : incoming'[s][n] = <<s, (g + 1) + (b - 1) + n>>
      <4>1. (g + 1) + (b - 1) = g + b
        BY <3>2
      <4> QED  BY <3>1, <3>4, <4>1
    <3>8. Len(got'[s]) + Len(buf'[s]) + Len(incoming'[s]) = Handed(s)
      BY <3>2, <3>3
    <3> QED  BY <3>1, <3>2, <3>3, <3>5, <3>6, <3>7, <3>8
  <2> QED  BY <2>1, <2>2
<1>6. \A t \in Streams : Handed(t)' = Handed(t)
  BY <1>4, <1>5 DEF Handed
<1>7. \A t \in Streams : Base(t)' = Base(t)
  BY <1>1, <1>6 DEF Base, loopVars, wVars
<1>8. Line' = Line
  BY <1>1, LineStays DEF farVars, serverVars, fwdVars, loopVars, rVars
<1>9. /\ UNCHANGED <<hpc, chid, chanCtr, taken, srcClosed, cases, handlers, conn, rpc, wpc, whold,
                     wfor, ctxDone, inClosed, inNil>>
      /\ Window(0) /\ KeepsIds
  BY <1>0, <1>1, <1>8, WindowStays
  DEF KeepsIds, farVars, serverVars, srcVars, fwdVars, loopVars, rVars, wVars
<1>10. Distinct'
  BY <1>9 DEF Ordered, Distinct
<1>11. Settled'
  <2>1. hpc[s] = "registered"
    <3>1. incoming[s] # <<>> \/ buf[s] # <<>>
      BY DEF PumpTake, Receive
    <3> QED  BY <3>1 DEF Ordered, Settled
  <2>2. \A t \in Streams : hpc'[t] # "registered" =>
          taken'[t] = 0 /\ got'[t] = <<>> /\ buf'[t] = <<>> /\ incoming'[t] = <<>>
    BY <1>4, <1>9, <2>1 DEF Ordered, Settled
  <2> QED  BY <1>9, <2>2 DEF Ordered, Settled
<1>12. Addressed'
  BY <1>0, <1>9, AddressedWindow DEF Ordered
<1>13. InHand'
  <2>1. wfor \in Streams \/ wpc \notin {"value", "close"}
    BY <1>0 DEF TypeOK, WTypes
  <2> QED  BY <1>6, <1>7, <1>9, <2>1 DEF Ordered, InHand
<1>14. ASSUME NEW t \in Streams PROVE Kept(t)' /\ InLine(t)' /\ Closes(t)'
  <2>1. Kept(t)'
    <3>1. CASE t = s
      BY <1>3, <1>5, <1>7, <1>9, <3>1 DEF Kept
    <3>2. CASE t # s
      <4>1. /\ Kept(t) /\ Base(t)' = Base(t) /\ taken' = taken
            /\ incoming'[t] = incoming[t] /\ buf'[t] = buf[t] /\ got'[t] = got[t]
        BY <1>4, <1>7, <1>9, <3>2 DEF Ordered
      <4> QED  BY <4>1 DEF Kept
    <3> QED  BY <3>1, <3>2
  <2>2. InLine(t)'
    <3>1. Live(t)' => Live(t)
      BY <1>8, <1>9 DEF Live, Reachable
    <3>2. taken[t] \in Nat
      BY <1>0, BaseAre
    <3> QED  BY <1>0, <1>7, <1>8, <1>9, <3>1, <3>2, InLineStays DEF Ordered, About
  <2>3. Closes(t)'
    <3>1. incoming[t] = <<>> => incoming'[t] = <<>>
      BY <1>4, <1>5
    <3> QED  BY <1>6, <1>9, <3>1 DEF Ordered, Closes
  <2> QED  BY <2>1, <2>2, <2>3
<1> QED  BY <1>10, <1>11, <1>12, <1>13, <1>14 DEF Ordered

(* W is done with a value: it is in incoming, or its context is done.      *)
LEMMA WValueOrdered ==
  ASSUME TableInv, Ordered, WValue, ~crashed'
  PROVE  Ordered'
<1>0. TypeOK
  BY DEF TableInv
<1>1. /\ wpc = "value" /\ wpc' = "select" /\ wfor' = None
      /\ UNCHANGED <<farVars, callVars, handlers, frames, rVars, inClosed, inNil, buf, pump, got, ctxDone>>
  BY DEF WValue
<1>s. PICK s \in Streams : s = wfor
  BY <1>0, <1>1 DEF TypeOK, WTypes
<1>2. /\ whold.data \in Values /\ whold.data = <<s, Handed(s) + 1>>
      /\ incoming \in [Streams -> Seq(Values)] /\ incoming[s] \in Seq(Values)
  <2>1. whold \in Msgs /\ whold.kind = "value"
    BY <1>0, <1>1 DEF TypeOK, WTypes
  <2> QED  BY <1>0, <1>1, <1>s, <2>1, MsgsAre DEF TypeOK, PumpTypes, Ordered, InHand
<1>n. PICK n \in Nat : n = Len(incoming[s])
  BY <1>2, LenProperties
<1>3. /\ Handed(s) = Len(got[s]) + Len(buf[s]) + n /\ Base(s) = Handed(s) + 1
      /\ Len(got[s]) \in Nat /\ Len(buf[s]) \in Nat /\ Handed(s) \in Nat
      /\ taken[s] \in Nat
  BY <1>0, <1>1, <1>s, <1>n, BaseAre
<1>g. PICK g \in Nat, b \in Nat : g = Len(got[s]) /\ b = Len(buf[s])
  BY <1>3, Zenon
<1>k. n \in Nat /\ g \in Nat /\ b \in Nat
  BY <1>n, <1>g, Zenon
<1>h. /\ Handed(s) \in Nat /\ Handed(s) = g + b + n /\ Base(s) = Handed(s) + 1 /\ Base(s) = g + b + n + 1
      /\ Base(s) \in Nat
  <2>1. Handed(s) \in Nat /\ Handed(s) = g + b + n /\ Base(s) = Handed(s) + 1
    BY <1>3, <1>g, Zenon
  <2> QED  BY <1>k, <2>1
<1>4. \/ ctxDone[s] /\ incoming' = incoming
      \/ ~inClosed[s] /\ incoming' = [incoming EXCEPT ![s] = Append(@, whold.data)]
  BY <1>s DEF WValue
<1>5. \A t \in Streams \ {s} : incoming'[t] = incoming[t]
  BY <1>2, <1>4
<1>6. /\ \A t \in Streams \ {s} : Handed(t)' = Handed(t) /\ Base(t)' = Base(t)
      /\ Base(s)' = Handed(s)'
  <2>1. \A t \in Streams \ {s} : Handed(t)' = Handed(t)
    BY <1>1, <1>5 DEF Handed
  <2>2. Handed(s)' \in Nat /\ \A t \in Streams : Handed(t) \in Nat
    <3>1. TypeOK'
      BY WFinishesKeeps DEF TableInv
    <3>2. incoming'[s] \in Seq(Values)
      BY <1>s, <3>1 DEF TypeOK, PumpTypes
    <3>3. PICK k \in Nat : k = Len(incoming'[s])
      BY <3>2, LenProperties
    <3>4. Handed(s)' = g + b + k
      BY <1>1, <1>g, <3>3 DEF Handed
    <3>5. Handed(s)' \in Nat
      BY <3>4
    <3> QED  BY <1>0, <3>5, BaseAre
  <2>3. \A t \in Streams : /\ Base(t) = Handed(t) + (IF wpc = "value" /\ wfor = t THEN 1 ELSE 0)
                           /\ Base(t)' = Handed(t)' + (IF wpc' = "value" /\ wfor' = t THEN 1 ELSE 0)
    BY DEF Base
  <2>4. wpc' # "value"
    BY <1>1
  <2> QED  BY <1>s, <2>1, <2>2, <2>3, <2>4
<1>7. Line' = Line
  BY <1>1, LineStays DEF farVars, serverVars, fwdVars, rVars
<1>8. /\ UNCHANGED <<hpc, chid, chanCtr, taken, srcClosed, cases, handlers, conn, rpc, ctxDone,
                     inClosed, inNil, got, buf>>
      /\ Window(0) /\ KeepsIds
  BY <1>0, <1>1, <1>7, WindowStays DEF KeepsIds, farVars, serverVars, srcVars, fwdVars, rVars
<1>9. Distinct' /\ InHand'
  BY <1>1, <1>8 DEF Ordered, Distinct, InHand
<1>10. Settled'
  <2>1. hpc[s] = "registered"
    BY <1>s, OutChansAssumption DEF Ordered, Settled
  <2>2. \A t \in Streams : hpc'[t] # "registered" =>
          taken'[t] = 0 /\ got'[t] = <<>> /\ buf'[t] = <<>> /\ incoming'[t] = <<>>
    BY <1>5, <1>8, <2>1 DEF Ordered, Settled
  <2> QED  BY <1>1, <1>8, <2>2 DEF Ordered, Settled
<1>11. Addressed'
  BY <1>0, <1>8, AddressedWindow DEF Ordered
<1>12. ASSUME NEW t \in Streams PROVE Live(t)' => Live(t)
  BY <1>7, <1>8 DEF Live, Reachable
<1>13. ASSUME NEW t \in Streams, Base(t)' = Base(t) PROVE InLine(t)'
  <2>1. taken[t] \in Nat
    BY <1>0, BaseAre
  <2> QED  BY <1>0, <1>7, <1>8, <1>12, <1>13, <2>1, InLineStays DEF Ordered, About
<1>14. ASSUME NEW t \in Streams \ {s} PROVE Kept(t)' /\ InLine(t)' /\ Closes(t)'
  <2>1. /\ Kept(t) /\ Closes(t) /\ Base(t)' = Base(t) /\ Handed(t)' = Handed(t)
        /\ incoming'[t] = incoming[t]
    BY <1>5, <1>6 DEF Ordered
  <2>2. Kept(t)' /\ Closes(t)'
    BY <1>8, <2>1 DEF Kept, Closes
  <2> QED  BY <1>13, <2>1, <2>2
<1>15. Kept(s)' /\ InLine(s)' /\ Closes(s)'
  <2>1. Kept(s) /\ Closes(s)
    BY <1>2 DEF Ordered
  <2>2. CASE ctxDone[s] /\ incoming' = incoming
    <3>1. Handed(s)' = Handed(s)
      BY <1>8, <2>2 DEF Handed
    <3>2. Base(s)' <= taken'[s]
      <4>1. Base(s) <= taken[s] /\ taken'[s] = taken[s] /\ Base(s)' = Handed(s)
        BY <1>s, <1>6, <1>8, <2>1, <3>1 DEF Kept
      <4>3. Handed(s) + 1 <= taken[s] /\ taken[s] \in Nat
        BY <1>3, <4>1, Zenon
      <4>5. Handed(s) <= taken[s]
        BY <1>h, <4>3
      <4> QED  BY <4>1, <4>5, Zenon
    <3>3. Kept(s)' /\ Closes(s)'
      BY <1>8, <2>1, <2>2, <3>1, <3>2 DEF Kept, Closes
    <3>4. InLine(s)'
      BY <1>8, <2>2 DEF InLine, Live
    <3> QED  BY <3>3, <3>4
  <2>3. CASE ~inClosed[s] /\ incoming' = [incoming EXCEPT ![s] = Append(@, whold.data)]
    <3>1. /\ incoming'[s] = Append(incoming[s], whold.data)
      BY <1>2, <2>3
    <3>2. /\ Len(incoming'[s]) = n + 1 /\ incoming'[s][n + 1] = whold.data
          /\ \A i \in 1 .. n : incoming'[s][i] = incoming[s][i]
      BY <1>2, <1>n, <3>1, AppendTo
    <3>3. Handed(s)' = g + b + (n + 1)
      BY <1>g, <1>8, <3>2 DEF Handed
    <3>4. Handed(s)' = Handed(s) + 1 /\ Base(s)' = Base(s)
      BY <1>k, <1>h, <1>s, <1>6, <3>3
    <3>5. \A i \in 1 .. n + 1 : incoming'[s][i] = <<s, g + b + i>>
      <4> SUFFICES ASSUME NEW i \in 1 .. n + 1
                   PROVE  incoming'[s][i] = <<s, g + b + i>>
        OBVIOUS
      <4>1. CASE i = n + 1
        <5>1. Handed(s) + 1 = g + b + i
          BY <1>k, <1>h, <4>1
        <5> QED  BY <1>2, <3>2, <4>1, <5>1
      <4>2. CASE i \in 1 .. n
        BY <1>g, <1>n, <2>1, <3>2, <4>2 DEF Kept
      <4> QED  BY <4>1, <4>2
    <3>8. Base(s) <= taken[s]
      BY <2>1 DEF Kept
    <3>6. Kept(s)'
      BY <1>g, <1>8, <1>s, <2>1, <3>2, <3>4, <3>5, <3>8 DEF Kept
    <3>7. Closes(s)'
      BY <1>8, <2>1, <2>3 DEF Closes
    <3> QED  BY <1>2, <1>13, <3>4, <3>6, <3>7
  <2> QED  BY <1>4, <2>2, <2>3
<1> QED  BY <1>9, <1>10, <1>11, <1>14, <1>15 DEF Ordered

-----------------------------------------------------------------------------
(* W takes the first message                                               *)

LEMMA TakesOrdered ==
  ASSUME TableInv, Ordered, wpc = "select", Line # <<>>, Line' = Tail(Line),
         UNCHANGED <<hpc, chid, chanCtr, taken, srcClosed, cases, conn, rpc, ctxDone, incoming,
                     inClosed, inNil, buf, got>>,
         \A i \in Ids : handlers'[i] # None =>
           Reachable(handlers'[i]) /\ hpc[handlers'[i]] = "registered",
         wfor' # None => hpc[wfor'] = "registered",
         InHand',
         \A s \in Streams : /\ Base(s)' <= taken[s]
                            /\ Live(s) => Base(s)' = Base(s) + (IF IsValue(Line[1], s) THEN 1 ELSE 0)
  PROVE  Ordered'
<1>0. TypeOK
  BY DEF TableInv
<1>1. Window(1) /\ KeepsIds
  BY <1>0, WindowTail DEF KeepsIds
<1>2. Distinct' /\ Settled'
  <2>1. Settled'
    BY DEF Ordered, Settled
  <2> QED  BY <2>1 DEF Ordered, Distinct
<1>3. Addressed'
  BY <1>0, <1>1, AddressedWindow DEF Ordered
<1>4. ASSUME NEW s \in Streams PROVE Kept(s)' /\ Closes(s)'
  <2>1. Kept(s) /\ Closes(s) /\ Handed(s)' = Handed(s) /\ Base(s)' <= taken[s]
    BY DEF Ordered, Handed
  <2> QED  BY <2>1 DEF Kept, Closes
<1>5. ASSUME NEW s \in Streams PROVE InLine(s)'
  <2>1. \A i \in Ids : handlers'[i] = s => Reachable(s)
    BY OutChansAssumption
  <2>2. Live(s)' => Live(s)
    BY <1>1, <2>1, ReachableShrinks DEF Live
  <2> QED  BY <1>0, <2>2, InLineTail DEF Ordered
<1> QED  BY <1>2, <1>3, <1>4, <1>5 DEF Ordered

LEMMA ValuesFirst ==
  ASSUME NEW q, NEW s
  PROVE  ValuesTo(q, s, 1) = IF IsValue(q[1], s) THEN 1 ELSE 0
<1>1. ValuesTo(q, s, 0) = 0 /\ 0 \in Nat
  BY ValuesAre
<1>2. ValuesTo(q, s, 0 + 1) = ValuesTo(q, s, 0) + (IF IsValue(q[0 + 1], s) THEN 1 ELSE 0)
  BY <1>1, ValuesNext
<1> QED  BY <1>1, <1>2

LEMMA FirstTaken ==
  ASSUME TableInv, WDrop \/ WResponse \/ WLookup
  PROVE  /\ TypeOK /\ wpc = "select" /\ Line # <<>> /\ Line' = Tail(Line)
         /\ Head(frames) = Line[1] /\ Line[1] \in Msgs /\ 1 \in 1 .. Len(Line)
         /\ UNCHANGED <<hpc, chid, chanCtr, taken, srcClosed, cases, conn, rpc, ctxDone, incoming,
                        inClosed, inNil, buf, got>>
<1>1. TypeOK
  BY DEF TableInv
<1>2. /\ wpc = "select" /\ frames # <<>> /\ frames' = Tail(frames)
      /\ UNCHANGED <<farVars, rVars, incoming, inClosed, inNil, buf, got, ctxDone>>
  BY DEF WDrop, WResponse, WLookup, progVars, pumpVars
<1>3. Line # <<>> /\ Head(Line) = Head(frames) /\ Line' = Tail(Line)
  BY <1>1, <1>2, LineTail DEF farVars, serverVars, fwdVars, rVars
<1>4. Head(Line) = Line[1] /\ Line[1] \in Msgs /\ 1 \in 1 .. Len(Line)
  BY <1>1, <1>3, WindowTail
<1> QED  BY <1>1, <1>2, <1>3, <1>4 DEF farVars, serverVars, srcVars, fwdVars, rVars

(* The table knows the first message's stream, if W can know it at all.    *)
LEMMA FirstIsKnown ==
  ASSUME TableInv, Ordered, 1 \in 1 .. Len(Line), Line[1] \in Msgs, Line[1].kind # "response",
         NEW s \in Streams, About(Line[1], s)
  PROVE  /\ Reachable(s) => handlers[Line[1].id] = s
         /\ handlers[Line[1].id] # None => handlers[Line[1].id] = s
<1>1. /\ handlers \in [Ids -> Streams \cup {None}] /\ Line[1].id \in Ids
      /\ chid[s] = Line[1].id /\ chid[s] # 0 /\ s # None
  BY MsgsAre, IdsAre, OutChansAssumption DEF TableInv, TypeOK, QueueTypes, About
<1>2. \A i \in Ids : handlers[i] # None => chid[handlers[i]] = i
  BY DEF TableInv, TablesAgree, Registered
<1>3. ASSUME Reachable(s) PROVE handlers[Line[1].id] = s
  <2>1. CASE \E i \in Ids : handlers[i] = s
    BY <1>1, <1>2, <2>1
  <2>2. ASSUME NEW i \in 1 .. Len(Line), Line[i].kind = "response", Line[i].req = s
        PROVE  FALSE
    <3>1. About(Line[i], s) /\ \A j \in 1 .. i - 1 : Line[j].id # Line[i].id
      BY <2>2 DEF Ordered, Addressed
    <3>2. 1 \in 1 .. i - 1
      BY <2>2
    <3> QED  BY <1>1, <3>1, <3>2 DEF About
  <2> QED  BY <1>3, <2>1, <2>2 DEF Reachable
<1>4. ASSUME handlers[Line[1].id] # None PROVE handlers[Line[1].id] = s
  <2>1. PICK h \in Streams : h = handlers[Line[1].id]
    BY <1>1, <1>4
  <2>2. chid[h] = chid[s]
    BY <1>1, <1>2, <2>1, <1>4
  <2> QED  BY <1>1, <2>1, <2>2 DEF Ordered, Distinct
<1> QED  BY <1>3, <1>4

LEMMA WDropOrdered ==
  ASSUME TableInv, Ordered, WDrop
  PROVE  Ordered'
<1> DEFINE m == Line[1]
<1>1. /\ TypeOK /\ wpc = "select" /\ Line # <<>> /\ Line' = Tail(Line)
      /\ Head(frames) = m /\ m \in Msgs /\ 1 \in 1 .. Len(Line)
      /\ UNCHANGED <<hpc, chid, chanCtr, taken, srcClosed, cases, conn, rpc, ctxDone, incoming,
                     inClosed, inNil, buf, got>>
  BY FirstTaken
<1>2. /\ UNCHANGED <<handlers, wpc, whold, wfor>>
      /\ \/ m.kind = "response"
         \/ m.kind # "response" /\ handlers[m.id] = None
         \/ m.kind = "value" /\ handlers[m.id] # None /\ ctxDone[handlers[m.id]]
  BY <1>1 DEF WDrop, wVars
<1>3. \A i \in Ids : handlers'[i] # None =>
        Reachable(handlers'[i]) /\ hpc[handlers'[i]] = "registered"
  BY <1>2 DEF Reachable, Ordered, Settled
<1>4. InHand' /\ (wfor' # None => hpc[wfor'] = "registered")
  BY <1>1, <1>2 DEF InHand, Ordered, Settled
<1>5. ASSUME NEW s \in Streams, Live(s) PROVE ~IsValue(m, s)
  <2> SUFFICES ASSUME IsValue(m, s) PROVE FALSE
    OBVIOUS
  <2>1. m.kind = "value" /\ About(m, s)
    BY <1>1 DEF IsValue, Ordered, Addressed
  <2>2. handlers[m.id] = s
    BY <1>1, <1>5, <2>1, FirstIsKnown DEF Live
  <2> QED  BY <1>2, <1>5, <2>1, <2>2, OutChansAssumption DEF Live
<1>6. ASSUME NEW s \in Streams
      PROVE  /\ Base(s)' <= taken[s]
             /\ Live(s) => Base(s)' = Base(s) + (IF IsValue(m, s) THEN 1 ELSE 0)
  <2>1. Base(s)' = Base(s) /\ Base(s) \in Nat /\ Base(s) <= taken[s]
    BY <1>1, <1>2, BaseAre DEF Base, Handed, Ordered, Kept
  <2> QED  BY <1>5, <2>1
<1> QED  BY <1>1, <1>3, <1>4, <1>6, TakesOrdered

LEMMA WResponseOrdered ==
  ASSUME TableInv, Ordered, WResponse
  PROVE  Ordered'
<1> DEFINE m == Line[1]
<1>1. /\ TypeOK /\ wpc = "select" /\ Line # <<>> /\ Line' = Tail(Line)
      /\ Head(frames) = m /\ m \in Msgs /\ 1 \in 1 .. Len(Line)
      /\ UNCHANGED <<hpc, chid, chanCtr, taken, srcClosed, cases, conn, rpc, ctxDone, incoming,
                     inClosed, inNil, buf, got>>
  BY FirstTaken
<1>2. /\ m.kind = "response" /\ handlers' = [handlers EXCEPT ![m.id] = m.req]
      /\ wpc' = "ready" /\ wfor' = m.req
  BY <1>1 DEF WResponse
<1>3. Reachable(m.req) /\ hpc[m.req] = "registered"
  BY <1>1, <1>2 DEF Reachable, Ordered, Addressed, About
<1>4. \A i \in Ids : handlers'[i] # None =>
        Reachable(handlers'[i]) /\ hpc[handlers'[i]] = "registered"
  <2>1. \A i \in Ids : handlers'[i] = m.req \/ handlers'[i] = handlers[i]
    BY <1>1, <1>2 DEF TypeOK, QueueTypes
  <2>2. \A i \in Ids : handlers[i] # None =>
          Reachable(handlers[i]) /\ hpc[handlers[i]] = "registered"
    BY DEF Reachable, Ordered, Settled
  <2> HIDE DEF m
  <2> QED  BY <1>3, <2>1, <2>2
<1>5. InHand'
  BY <1>2 DEF InHand
<1>6. ASSUME NEW s \in Streams
      PROVE  /\ Base(s)' <= taken[s]
             /\ Live(s) => Base(s)' = Base(s) + (IF IsValue(m, s) THEN 1 ELSE 0)
  <2>1. Base(s)' = Base(s) /\ Base(s) \in Nat /\ Base(s) <= taken[s]
    BY <1>1, <1>2, BaseAre DEF Base, Handed, Ordered, Kept
  <2>2. ~IsValue(m, s)
    BY <1>2 DEF IsValue
  <2> QED  BY <2>1, <2>2
<1> QED  BY <1>1, <1>2, <1>3, <1>4, <1>5, <1>6, TakesOrdered

(* What W looks up is in its place: the next value of its stream, or the   *)
(* end after the last one.                                                 *)
LEMMA WLookupOrdered ==
  ASSUME TableInv, Ordered, WLookup
  PROVE  Ordered'
<1>m. PICK m : m = Line[1]
  OBVIOUS
<1>1. /\ TypeOK /\ wpc = "select" /\ Line # <<>> /\ Line' = Tail(Line)
      /\ Head(frames) = m /\ m \in Msgs /\ 1 \in 1 .. Len(Line)
      /\ UNCHANGED <<hpc, chid, chanCtr, taken, srcClosed, cases, conn, rpc, ctxDone, incoming,
                     inClosed, inNil, buf, got>>
  BY <1>m, FirstTaken
<1>2. /\ m.kind # "response" /\ handlers[m.id] # None /\ handlers' = handlers
      /\ m.kind = "value" => ~ctxDone[handlers[m.id]]
      /\ wpc' = m.kind /\ whold' = m /\ wfor' = handlers[m.id]
  BY <1>1 DEF WLookup
<1>3. PICK s \in Streams : s = handlers[m.id] /\ hpc[s] = "registered"
  BY <1>1, <1>2, MsgsAre DEF TypeOK, QueueTypes, Ordered, Settled
<1>4. About(m, s) /\ (m.kind = "value" => m.data[1] = s) /\ Reachable(s)
  <2>1. \A t \in Streams : About(m, t) => t = s
    BY <1>m, <1>1, <1>2, <1>3, FirstIsKnown
  <2>2. \E t \in Streams : About(m, t)
    BY <1>m, <1>1 DEF Ordered, Addressed
  <2>3. m.kind = "value" => About(m, m.data[1]) /\ m.data[1] \in Streams
    <3>1. m.kind = "value" => m.data[1] \in Streams
      BY <1>1, MsgsAre DEF Values
    <3> QED  BY <3>1, <1>m, <1>1 DEF Ordered, Addressed
  <2>4. Reachable(s)
    BY <1>1, <1>3, MsgsAre DEF Reachable
  <2> QED  BY <2>1, <2>2, <2>3, <2>4
<1>5. \A t \in Streams : IsValue(m, t) <=> (m.kind = "value" /\ t = s)
  BY <1>4 DEF IsValue
<1>6. /\ Handed(s) \in Nat /\ Base(s) = Handed(s) /\ taken[s] \in Nat
      /\ \A t \in Streams : Handed(t)' = Handed(t)
  BY <1>1, BaseAre DEF Handed
<1>7. ~ctxDone[s] => /\ m.kind = "value" => m.data = <<s, Handed(s) + 1>> /\ Handed(s) + 1 <= taken[s]
                     /\ m.kind = "close" => srcClosed[s] /\ Handed(s) = taken[s]
  <2>1. ValuesTo(Line, s, 1) = IF m.kind = "value" THEN 1 ELSE 0
    BY <1>m, <1>5, ValuesFirst
  <2>2. ASSUME ~ctxDone[s] PROVE InLine(s) /\ Live(s)
    BY <1>4, <2>2 DEF Live, Ordered
  <2>3. ASSUME ~ctxDone[s], m.kind = "value"
        PROVE  m.data = <<s, Handed(s) + 1>> /\ Handed(s) + 1 <= taken[s]
    <3>1. IsValue(m, s) /\ ValuesTo(Line, s, 1) = 1
      BY <1>5, <2>1, <2>3
    <3>2. m.data = <<s, Base(s) + 1>> /\ Base(s) + 1 <= taken[s]
      BY <1>m, <1>1, <2>2, <2>3, <3>1 DEF InLine
    <3> QED  BY <1>6, <3>2
  <2>4. ASSUME ~ctxDone[s], m.kind = "close"
        PROVE  srcClosed[s] /\ Handed(s) = taken[s]
    <3>1. ValuesTo(Line, s, 1) = 0
      BY <2>1, <2>4
    <3>2. srcClosed[s] /\ Base(s) + 0 = taken[s]
      BY <1>m, <1>1, <1>4, <2>2, <2>4, <3>1 DEF InLine
    <3> QED  BY <1>6, <3>2
  <2> QED  BY <2>3, <2>4
<1>8. ASSUME NEW t \in Streams
      PROVE  /\ Base(t)' = Base(t) + (IF IsValue(m, t) THEN 1 ELSE 0)
             /\ Base(t)' <= taken[t]
  <2>1. /\ Base(t) = Handed(t) /\ Handed(t) \in Nat /\ Base(t) <= taken[t]
        /\ Base(t)' = Handed(t) + (IF m.kind = "value" /\ s = t THEN 1 ELSE 0)
    <3>1. Base(t)' = Handed(t)' + (IF wpc' = "value" /\ wfor' = t THEN 1 ELSE 0)
      BY DEF Base
    <3>2. Base(t) = Handed(t) /\ Handed(t) \in Nat
      BY <1>1, BaseAre
    <3> QED  BY <1>2, <1>3, <1>6, <3>1, <3>2 DEF Ordered, Kept
  <2> QED  BY <1>2, <1>3, <1>5, <1>7, <2>1
<1>9. InHand'
  <2>1. wpc' = "value" => whold'.data = <<wfor', Handed(wfor)' + 1>>
    <3>1. wpc' = "value" => m.data = <<s, Handed(s) + 1>>
      BY <1>2, <1>3, <1>7
    <3>2. Handed(s)' = Handed(s)
      BY <1>6
    <3> QED  BY <1>1, <1>2, <1>3, <3>1, <3>2 DEF Handed
  <2>2. (wpc' = "close" /\ ~ctxDone'[wfor']) => srcClosed'[wfor'] /\ Base(wfor)' = taken'[wfor']
    <3> SUFFICES ASSUME m.kind = "close", ~ctxDone[s]
                 PROVE  srcClosed[s] /\ Base(wfor)' = taken[s]
      BY <1>1, <1>2, <1>3
    <3>1. srcClosed[s] /\ Handed(s) = taken[s]
      BY <1>7
    <3>2. Base(s)' = Handed(s)
      <4>1. Base(s)' = Base(s) + 0
        BY <1>5, <1>8
      <4> QED  BY <1>6, <4>1
    <3>3. wfor' = s
      BY <1>2, <1>3
    <3>4. Base(wfor)' = Base(s)'
      BY <3>3 DEF Base, Handed
    <3> QED  BY <3>1, <3>2, <3>4
  <2> QED  BY <2>1, <2>2 DEF InHand
<1>10. \A i \in Ids : handlers'[i] # None =>
        Reachable(handlers'[i]) /\ hpc[handlers'[i]] = "registered"
  BY <1>2 DEF Reachable, Ordered, Settled
<1> QED  BY <1>m, <1>1, <1>2, <1>3, <1>8, <1>9, <1>10, TakesOrdered

-----------------------------------------------------------------------------
(* The forwarder has a new message                                         *)

LEMMA AddressedGrows ==
  ASSUME TypeOK, Addressed, KeepsIds, NEW m \in Msgs, Line' = Append(Line, m),
         NEW u \in Streams, About(m, u)', m.kind = "value" => m.data[1] = u,
         m.kind = "response" => m.req = u /\ \A j \in 1 .. Len(Line) : Line[j].id # m.id
  PROVE  Addressed'
<1>n. PICK n \in Nat : n = Len(Line)
  BY LineAre, LenProperties
<1>1. /\ Line \in Seq(Msgs) /\ Len(Line') = n + 1 /\ Line'[n + 1] = m
      /\ \A i \in 1 .. n : Line'[i] = Line[i]
  BY <1>n, LineAre, AppendTo
<1> SUFFICES ASSUME NEW i \in 1 .. Len(Line')
             PROVE  /\ \E s \in Streams : About(Line[i], s)'
                    /\ Line'[i].kind = "value" => About(Line[i], Line[i].data[1])'
                    /\ Line'[i].kind = "response" =>
                         /\ About(Line[i], Line[i].req)'
                         /\ \A j \in 1 .. i - 1 : Line'[j].id # Line'[i].id
  BY DEF Addressed
<1>2. CASE i = n + 1
  <2>1. Line'[i] = m
    BY <1>1, <1>2
  <2>2. \A j \in 1 .. i - 1 : j \in 1 .. Len(Line) /\ Line'[j] = Line[j]
    BY <1>n, <1>1, <1>2
  <2> QED  BY <2>1, <2>2 DEF About
<1>3. CASE i \in 1 .. n
  <2>1. PICK k \in Msgs : k = Line[i] /\ k = Line'[i]
    BY <1>n, <1>1, <1>3, ElementOfSeq
  <2>2. /\ \E s \in Streams : About(k, s)
        /\ k.kind = "value" => About(k, k.data[1])
        /\ k.kind = "response" => About(k, k.req) /\ \A j \in 1 .. i - 1 : Line[j].id # k.id
    BY <1>n, <1>3, <2>1 DEF Addressed
  <2>3. /\ k.kind = "value" => k.data[1] \in Streams
        /\ k.kind = "response" => k.req \in Streams
    BY <2>1, MsgsAre DEF Values
  <2>4. \A j \in 1 .. i - 1 : Line'[j] = Line[j]
    BY <1>n, <1>1, <1>3
  <2>5. \A s \in Streams : About(k, s) => chid'[s] = k.id /\ hpc'[s] = "registered"
    BY DEF About, KeepsIds
  <2> QED  BY <2>1, <2>2, <2>3, <2>4, <2>5 DEF About
<1> QED  BY <1>n, <1>1, <1>2, <1>3

(* The values of u that are new in line are those it puts there.           *)
LEMMA InLineNew ==
  ASSUME TypeOK, NEW u \in Streams, Base(u)' = 0, taken'[u] = 0,
         \A i \in 1 .. Len(Line') : /\ ~IsValue(Line[i], u)'
                                    /\ ~(Line'[i].kind = "close" /\ About(Line[i], u)')
  PROVE  InLine(u)'
<1>1. ValuesTo(Line', u, Len(Line')) = 0
  <2>1. ValuePos(Line', u, Len(Line')) = {}
    BY DEF ValuePos, IsValue
  <2> QED  BY <2>1, FS_EmptySet DEF ValuesTo
<1>2. Base(u)' + ValuesTo(Line', u, Len(Line')) = taken'[u]
  BY <1>1
<1> QED  BY <1>2 DEF InLine, ValuesTo, ValuePos, IsValue

(* m tells the client about u: that it is registered, its next value, or   *)
(* its end.                                                                *)
Forwards(m, u) ==
  /\ fpc = "select" /\ fpc' = "put" /\ fhold' = m
  /\ UNCHANGED <<chid, chanCtr, srcClosed, netVars>>
  /\ chid[u] = m.id /\ hpc'[u] = "registered"
  /\ \A t \in Streams \ {u} : hpc'[t] = hpc[t] /\ taken'[t] = taken[t]
  /\ taken'[u] = taken[u] + (IF m.kind = "value" THEN 1 ELSE 0)
  /\ hpc[u] = IF m.kind = "response" THEN "registering" ELSE "registered"
  /\ m.kind = "response" => m.req = u
  /\ m.kind = "value" => m.data = <<u, taken[u] + 1>> /\ ~srcClosed[u]
  /\ m.kind = "close" => srcClosed[u]
  /\ \A i \in 1 .. Len(cases') : hpc'[cases'[i]] = "registered"

LEMMA ForwardOrdered ==
  ASSUME TableInv, Ordered, NEW m \in Msgs, NEW u \in Streams, Forwards(m, u)
  PROVE  Ordered'
<1>0. TypeOK
  BY DEF TableInv
<1>1. UNCHANGED <<chid, chanCtr, srcClosed, writeQ, conn, handlers, frames, rpc, rhold, wpc, whold,
                  wfor, incoming, inClosed, inNil, buf, got, ctxDone>>
  BY DEF Forwards, netVars, clientVars, loopVars, progVars, pumpVars, rVars, wVars
<1>2. \A t \in Streams : /\ Handed(t)' = Handed(t) /\ Base(t)' = Base(t) /\ Base(t) \in Nat
                         /\ taken[t] \in Nat /\ Base(t) <= taken[t]
  BY <1>0, <1>1, BaseAre DEF Handed, Base, Ordered, Kept
<1>3. \A t \in Streams : /\ taken'[t] = taken[t] + (IF IsValue(m, t) THEN 1 ELSE 0)
                         /\ IsValue(m, t) <=> (m.kind = "value" /\ t = u)
  <2>1. m.kind = "value" => m.data[1] = u
    BY DEF Forwards
  <2> QED  BY <1>2, <2>1 DEF Forwards, IsValue
<1>4. \A t \in Streams : /\ taken'[t] \in Nat /\ taken[t] <= taken'[t]
                         /\ srcClosed[t] => taken'[t] = taken[t]
  BY <1>2, <1>3 DEF Forwards
<1>5. KeepsIds
  BY DEF Forwards, KeepsIds
<1>6. \A t \in Streams : hpc'[t] = "registered" => hpc[t] = "registered" \/ (t = u /\ m.kind = "response")
  BY DEF Forwards
<1>7. Line' = IF conn = "up" THEN Append(Line, m) ELSE Line
  <2>1. fpc = "select" /\ fpc' = "put" /\ fhold' \in Msgs /\ fhold' = m
    BY DEF Forwards
  <2> QED  BY <1>0, <1>1, <2>1, LineGrows
<1>8. m.kind = "response" => \A i \in 1 .. Len(Line) : Line[i].id # m.id
  <2> SUFFICES ASSUME m.kind = "response", NEW i \in 1 .. Len(Line), Line[i].id = m.id PROVE FALSE
    OBVIOUS
  <2>1. PICK s \in Streams : About(Line[i], s)
    BY DEF Ordered, Addressed
  <2>2. chid[s] = chid[u] /\ chid[u] # 0 /\ hpc[s] = "registered" /\ hpc[u] = "registering"
    BY <2>1, MsgsAre, IdsAre DEF About, Forwards
  <2> QED  BY <2>2 DEF Ordered, Distinct
<1>9. Distinct'
  BY <1>1 DEF Ordered, Distinct
<1>10. Settled'
  <2>1. \A s \in Streams : hpc'[s] # "registered" =>
          taken'[s] = 0 /\ got'[s] = <<>> /\ buf'[s] = <<>> /\ incoming'[s] = <<>>
    BY <1>1 DEF Ordered, Settled, Forwards
  <2>2. \A i \in 1 .. Len(cases') : hpc'[cases'[i]] = "registered"
    BY DEF Forwards
  <2>3. \A i \in Ids : handlers'[i] # None => hpc'[handlers'[i]] = "registered"
    BY <1>0, <1>1, <1>5 DEF TypeOK, QueueTypes, Ordered, Settled, KeepsIds
  <2>4. wfor' # None => hpc'[wfor'] = "registered"
    BY <1>0, <1>1, <1>5 DEF TypeOK, WTypes, Ordered, Settled, KeepsIds
  <2>5. rpc' \notin {"read", "push"} => conn' = "down"
    BY <1>1 DEF Ordered, Settled
  <2> QED  BY <2>1, <2>2, <2>3, <2>4, <2>5 DEF Settled
<1>11. Addressed'
  <2>1. CASE conn = "up"
    <3>1. About(m, u)'
      BY DEF Forwards, About
    <3>2. m.kind = "value" => m.data[1] = u
      BY DEF Forwards
    <3>3. m.kind = "response" => m.req = u
      BY DEF Forwards
    <3> QED  BY <1>0, <1>5, <1>7, <1>8, <2>1, <3>1, <3>2, <3>3, AddressedGrows DEF Ordered
  <2>2. CASE conn # "up"
    BY <1>0, <1>5, <1>7, <2>2, WindowStays, AddressedWindow DEF Ordered
  <2> QED  BY <2>1, <2>2
<1>12. InHand'
  <2>1. wpc' = "value" => whold'.data = <<wfor', Handed(wfor)' + 1>>
    BY <1>1 DEF Ordered, InHand, Handed
  <2>2. (wpc' = "close" /\ ~ctxDone'[wfor']) => srcClosed'[wfor'] /\ Base(wfor)' = taken'[wfor']
    <3> SUFFICES ASSUME wpc = "close", ~ctxDone[wfor]
                 PROVE  srcClosed[wfor] /\ Base(wfor)' = taken'[wfor]
      BY <1>1
    <3>1. wfor \in Streams
      BY <1>0 DEF TypeOK, WTypes
    <3>2. srcClosed[wfor] /\ Base(wfor) = taken[wfor]
      BY DEF Ordered, InHand
    <3>3. taken'[wfor] = taken[wfor]
      BY <1>4, <3>1, <3>2
    <3>4. Base(wfor)' = Base(wfor)
      BY <1>1 DEF Base, Handed
    <3> QED  BY <3>2, <3>3, <3>4
  <2> QED  BY <2>1, <2>2 DEF InHand
<1>13. ASSUME NEW t \in Streams PROVE Kept(t)' /\ Closes(t)'
  <2>1. Base(t)' <= taken'[t]
    <3>1. \A x, y, z \in Nat : x <= y /\ y <= z => x <= z
      OBVIOUS
    <3>2. Base(t) <= taken[t] /\ taken[t] <= taken'[t]
      BY <1>2, <1>4
    <3>3. Base(t) <= taken'[t]
      BY <1>2, <1>4, <3>1, <3>2, Zenon
    <3> QED  BY <1>2, <3>3, Zenon
  <2>2. Kept(t) /\ Closes(t)
    BY DEF Ordered
  <2>3. Kept(t)'
    BY <1>1, <2>1, <2>2 DEF Kept
  <2>4. Closes(t)'
    BY <1>1, <1>2, <1>4, <2>2 DEF Closes
  <2> QED  BY <2>3, <2>4
<1>14. ASSUME NEW t \in Streams PROVE InLine(t)'
  <2>1. CASE t = u /\ m.kind = "response"
    <3>1. Base(u)' = 0 /\ taken'[u] = 0
      <4>1. taken[u] = 0
        BY <2>1 DEF Forwards, Ordered, Settled
      <4> QED  BY <1>2, <1>3, <2>1, <4>1
    <3>2. ASSUME NEW i \in 1 .. Len(Line')
          PROVE  /\ ~IsValue(Line[i], u)'
                 /\ ~(Line'[i].kind = "close" /\ About(Line[i], u)')
      <4>1. CASE Line'[i] = m
        BY <2>1, <4>1 DEF IsValue
      <4>2. CASE i \in 1 .. Len(Line) /\ Line'[i] = Line[i]
        <5>1. Line[i].id # m.id /\ chid'[u] = m.id
          BY <1>1, <1>8, <2>1, <4>2 DEF Forwards
        <5>2. Line[i].kind = "value" => Line[i].data[1] # u
          BY <1>1, <4>2, <5>1 DEF Ordered, Addressed, About
        <5> QED  BY <4>2, <5>1, <5>2 DEF IsValue, About
      <4>3. Line'[i] = m \/ (i \in 1 .. Len(Line) /\ Line'[i] = Line[i])
        <5>1. CASE conn = "up"
          <6>1. /\ Len(Append(Line, m)) = Len(Line) + 1 /\ Len(Line) \in Nat
                /\ Append(Line, m)[Len(Line) + 1] = m
                /\ \A j \in 1 .. Len(Line) : Append(Line, m)[j] = Line[j]
            BY <1>0, LineAre, AppendTo
          <6> QED  BY <1>7, <5>1, <6>1
        <5>2. CASE conn # "up"
          BY <1>7, <5>2
        <5> QED  BY <5>1, <5>2
      <4> QED  BY <4>1, <4>2, <4>3
    <3> QED  BY <1>0, <2>1, <3>1, <3>2, InLineNew
  <2>2. CASE ~(t = u /\ m.kind = "response")
    <3>1. hpc'[t] = "registered" => hpc[t] = "registered"
      BY <1>6, <2>2
    <3>2. m.kind = "response" => m.req # t
      BY <2>2 DEF Forwards
    <3>3. CASE conn = "up"
      <4>1. Line' = Append(Line, m)
        BY <1>7, <3>3
      <4>2. Reachable(t)' => Reachable(t)
        <5>1. /\ Len(Append(Line, m)) = Len(Line) + 1 /\ Len(Line) \in Nat
              /\ Append(Line, m)[Len(Line) + 1] = m
              /\ \A j \in 1 .. Len(Line) : Append(Line, m)[j] = Line[j]
          BY <1>0, LineAre, AppendTo
        <5> QED  BY <1>1, <3>2, <4>1, <5>1 DEF Reachable
      <4>3. Live(t)' => Live(t) /\ Base(t)' = Base(t)
        BY <1>1, <1>2, <4>2 DEF Live
      <4>4. IsValue(m, t) => m.data = <<t, taken[t] + 1>> /\ ~srcClosed[t]
        BY <1>3 DEF Forwards
      <4>5. m.kind = "close" /\ m.id = chid[t] => srcClosed[t]
        <5>1. chid[u] = m.id /\ m.id # 0
          BY MsgsAre, IdsAre DEF Forwards
        <5>2. m.id = chid[t] => t = u
          BY <5>1 DEF Ordered, Distinct
        <5> QED  BY <5>2 DEF Forwards
      <4>6. conn' = "up" /\ InLine(t)
        BY <1>1, <3>3 DEF Ordered
      <4> QED  BY <1>0, <1>1, <1>3, <3>1, <3>3, <4>1, <4>3, <4>4, <4>5, <4>6, InLineGrows
    <3>4. CASE conn # "up"
      <4>1. Line' = Line /\ conn' # "up"
        BY <1>1, <1>7, <3>4
      <4>2. Live(t)' => Live(t) /\ Base(t)' = Base(t)
        BY <1>1, <1>2, <4>1 DEF Live, Reachable
      <4>3. \A k \in Msgs : chid'[t] = k.id /\ hpc'[t] = "registered" => About(k, t)
        BY <1>1, <3>1 DEF About
      <4>4. InLine(t) /\ Window(0) /\ (srcClosed[t] => srcClosed'[t] /\ taken'[t] = taken[t])
        BY <1>0, <1>1, <1>4, <4>1, WindowStays DEF Ordered
      <4> QED  BY <1>0, <1>4, <4>1, <4>2, <4>3, <4>4, InLineStays
    <3> QED  BY <3>3, <3>4
  <2> QED  BY <2>1, <2>2
<1> QED  BY <1>9, <1>10, <1>11, <1>12, <1>13, <1>14 DEF Ordered

LEMMA FRegisterOrdered ==
  ASSUME TableInv, Ordered, NEW s \in Streams, FRegister(s)
  PROVE  Ordered'
<1>1. /\ fpc = "select" /\ fpc' = "put" /\ hpc[s] = "registering" /\ hpc' = [hpc EXCEPT ![s] = "registered"]
      /\ cases' = Append(cases, s) /\ fhold' = Response(s, chid[s])
      /\ UNCHANGED <<chid, chanCtr, taken, srcClosed, netVars>>
  BY DEF FRegister
<1>2. cases \in Seq(Streams) /\ hpc \in [Streams -> {"idle", "ran", "registering", "registered", "failed"}]
  BY DEF TableInv, TypeOK, FwdTypes, SrcTypes
<1>3. PICK m \in Msgs : m = fhold'
  BY <1>1, FRegisterKeeps DEF TableInv, TypeOK, FwdTypes
<1>4. m.kind = "response" /\ m.id = chid[s] /\ m.req = s
  BY <1>1, <1>3 DEF Response
<1>5. \A i \in 1 .. Len(cases') : hpc'[cases'[i]] = "registered"
  <2>1. /\ Len(cases') = Len(cases) + 1 /\ Len(cases) \in Nat /\ cases'[Len(cases) + 1] = s
        /\ \A i \in 1 .. Len(cases) : cases'[i] = cases[i]
    BY <1>1, <1>2, AppendTo
  <2>2. \A i \in 1 .. Len(cases) : cases[i] \in Streams /\ hpc[cases[i]] = "registered"
    BY <1>2, ElementOfSeq DEF Ordered, Settled
  <2>3. hpc'[s] = "registered" /\ \A t \in Streams : hpc[t] = "registered" => hpc'[t] = "registered"
    BY <1>1, <1>2
  <2> QED  BY <2>1, <2>2, <2>3
<1>6. taken'[s] = taken[s] + 0
  <2>1. taken[s] \in Nat
    BY BaseAre DEF TableInv
  <2> QED  BY <1>1, <2>1
<1>7. Forwards(m, s)
  BY <1>1, <1>2, <1>3, <1>4, <1>5, <1>6 DEF Forwards
<1> QED  BY <1>3, <1>7, ForwardOrdered

LEMMA FTakesOrdered ==
  ASSUME TableInv, Ordered, NEW i \in 1 .. Len(cases), FReceive(i) \/ FClosed(i)
  PROVE  Ordered'
<1>1. PICK s \in Streams : s = cases[i] /\ hpc[s] = "registered" /\ caseToID[i] = chid[s]
  BY ElementOfSeq DEF TableInv, TypeOK, FwdTypes, TablesAgree, Ordered, Settled
<1>2. PICK m \in Msgs : m = fhold'
  <2>1. fpc' = "put"
    BY DEF FReceive, FClosed
  <2> QED  BY <2>1, FTakesKeeps DEF TableInv, TypeOK, FwdTypes
<1>3. /\ cases \in Seq(Streams) /\ taken \in [Streams -> Nat] /\ taken[s] \in Nat
      /\ \A j \in 1 .. Len(cases) : hpc[cases[j]] = "registered"
  BY <1>1 DEF TableInv, TypeOK, FwdTypes, SrcTypes, Ordered, Settled
<1>4. CASE FReceive(i)
  <2>1. /\ fpc = "select" /\ fpc' = "put" /\ ~srcClosed[s] /\ taken' = [taken EXCEPT ![s] = @ + 1]
        /\ m = Value(chid[s], <<s, taken'[s]>>)
        /\ UNCHANGED <<hpc, chid, chanCtr, srcClosed, cases, netVars>>
    BY <1>1, <1>2, <1>4 DEF FReceive
  <2>2. taken'[s] = taken[s] + 1 /\ \A t \in Streams \ {s} : taken'[t] = taken[t]
    BY <1>3, <2>1
  <2>3. m.kind = "value" /\ m.id = chid[s] /\ m.data = <<s, taken[s] + 1>>
    BY <2>1, <2>2 DEF Value
  <2>4. Forwards(m, s)
    BY <1>1, <1>2, <1>3, <2>1, <2>2, <2>3 DEF Forwards
  <2> QED  BY <1>1, <1>2, <2>4, ForwardOrdered
<1>5. CASE FClosed(i)
  <2>1. /\ fpc = "select" /\ fpc' = "put" /\ srcClosed[s] /\ m = Closing(chid[s])
        /\ cases' = SwapOut(cases, i) /\ UNCHANGED <<srcVars, netVars>>
    BY <1>1, <1>2, <1>5 DEF FClosed
  <2>2. m.kind = "close" /\ m.id = chid[s]
    BY <2>1 DEF Closing
  <2>3. \A j \in 1 .. Len(cases') : hpc[cases'[j]] = "registered"
    <3>1. /\ Len(cases') = Len(cases) - 1 /\ Len(cases) \in Nat
          /\ \A j \in 1 .. Len(cases) - 1 : cases'[j] = IF j = i THEN cases[Len(cases)] ELSE cases[j]
      BY <1>3, <2>1, SwapOutOf, LenProperties
    <3>2. Len(cases) \in 1 .. Len(cases)
      BY <3>1
    <3> QED  BY <1>3, <3>1, <3>2
  <2>4. taken'[s] = taken[s] + 0
    BY <1>3, <2>1 DEF srcVars
  <2>5. Forwards(m, s)
    BY <1>1, <1>2, <2>1, <2>2, <2>3, <2>4 DEF Forwards, srcVars
  <2> QED  BY <1>1, <1>2, <2>5, ForwardOrdered
<1> QED  BY <1>4, <1>5

-----------------------------------------------------------------------------
(* The invariant holds                                                     *)

LEMMA FreshNext ==
  ASSUME TypeOK, Fresh, [Next]_vars
  PROVE  Fresh'
<1>1. /\ inflight \subseteq Streams /\ cpc \in [Streams -> {"idle", "waiting", "has", "error"}]
      /\ pump \in [Streams -> {"none", "run", "gone"}]
  BY DEF TypeOK, CallTypes, PumpTypes
<1>2. CASE UNCHANGED <<callVars, wpc, wfor>> /\ \A s \in Streams : pump[s] = "none" => pump'[s] = "none"
  BY <1>2 DEF Fresh, callVars
<1>3. ASSUME NEW s \in Streams, Call(s) PROVE Fresh'
  <2>1. /\ cpc[s] = "idle" /\ cpc' = [cpc EXCEPT ![s] = "waiting"] /\ inflight' = inflight \cup {s}
        /\ UNCHANGED <<pump, wpc, wfor>>
    BY <1>3 DEF Call, wVars, progVars, pumpVars
  <2>2. pump[s] = "none"
    BY <1>1, <2>1 DEF Fresh
  <2> QED  BY <1>1, <2>1, <2>2 DEF Fresh
<1>4. CASE RAnswer
  <2>1. /\ cpc' = [s \in Streams |-> IF s \in inflight /\ cpc[s] = "waiting" THEN "error" ELSE cpc[s]]
        /\ inflight' = {} /\ pump' = pump
    BY <1>4 DEF RAnswer, progVars, pumpVars
  <2> QED  BY <1>1, <2>1 DEF Fresh
<1>5. CASE WResponse
  <2>1. PICK m : m = Head(frames)
    OBVIOUS
  <2>2. /\ wpc = "select" /\ m.req \in inflight /\ pump' = [pump EXCEPT ![m.req] = "run"]
        /\ wpc' = "ready" /\ wfor' = m.req /\ UNCHANGED callVars
    BY <1>5, <2>1 DEF WResponse
  <2> QED  BY <1>1, <2>2 DEF Fresh, callVars
<1>6. CASE WReady
  <2>1. /\ wpc = "ready" /\ inflight' = inflight \ {wfor} /\ pump' = pump
        /\ cpc' = [cpc EXCEPT ![wfor] = IF @ = "waiting" THEN "has" ELSE @]
    BY <1>6 DEF WReady, progVars, pumpVars
  <2>2. \A s \in Streams : cpc[s] # "idle" => cpc'[s] # "idle"
    BY <1>1, <2>1
  <2> QED  BY <1>1, <2>1, <2>2 DEF Fresh
<1>7. CASE WDrop \/ WLookup \/ WValue \/ WClose \/ WLeave
  <2>1. UNCHANGED <<cpc, inflight, pump>> /\ wpc # "ready"
    BY <1>7 DEF WDrop, WLookup, WValue, WClose, WLeave, callVars, progVars, pumpVars
  <2> QED  BY <2>1 DEF Fresh
<1>8. CASE UNCHANGED vars
  BY <1>2, <1>8 DEF vars, callVars
<1>9. CASE ServerStep
  BY <1>2, <1>9 DEF ServerStep, FStep, HandleChanOut, ChanOutFails, FRegister, FReceive, FClosed, FPut,
     FExit, ServerExits, ServerWritesInVain, netVars, clientVars, loopVars, wVars, progVars, pumpVars
<1>10. CASE RStep
  <2>1. CASE RRead \/ RPush \/ RLeave \/ RLookup \/ RClose \/ RChansDone \/ \E i \in Ids : RPick(i)
    BY <1>2, <2>1 DEF RRead, RPush, RLeave, RLookup, RClose, RChansDone, RPick, wVars, progVars, pumpVars
  <2> QED  BY <1>4, <1>10, <2>1 DEF RStep
<1>11. CASE WStep
  BY <1>5, <1>6, <1>7, <1>11 DEF WStep
<1>12. CASE Environment
  <2>1. ASSUME NEW s \in Streams, SourceCloses(s) \/ CtxEnds(s) \/ ConnEnds PROVE Fresh'
    BY <1>2, <2>1 DEF SourceCloses, CtxEnds, ConnEnds, netVars, clientVars, loopVars, wVars, progVars, pumpVars
  <2>2. CASE ConnEnds
    BY <1>2, <2>2 DEF ConnEnds, clientVars, loopVars, wVars, progVars, pumpVars
  <2> QED  BY <1>3, <1>12, <2>1, <2>2 DEF Environment
<1>13. ASSUME NEW s \in Streams, PumpStep(s) \/ Receive(s) PROVE Fresh'
  <2>1. UNCHANGED <<callVars, wpc, wfor>>
    BY <1>13 DEF PumpStep, PumpTake, PumpSeesClose, PumpEnds, Receive, loopVars, wVars
  <2>2. \A t \in Streams : pump[t] = "none" => pump'[t] = "none"
    BY <1>1, <1>13 DEF PumpStep, PumpTake, PumpSeesClose, PumpEnds, Receive
  <2> QED  BY <1>2, <2>1, <2>2
<1> QED  BY <1>8, <1>9, <1>10, <1>11, <1>12, <1>13 DEF Next

LEMMA StreamInvInit == Init => StreamInv
<1> SUFFICES ASSUME Init PROVE StreamInv
  OBVIOUS
<1>1. TableInv
  BY TableInvInit
<1>2. Line = <<>> /\ Len(Line) = 0
  <2>1. Line = (<<>> \o <<>>) \o (<<>> \o <<>>)
    BY DEF Init, Line, Read, Sent
  <2> QED  BY <2>1
<1>3. Distinct /\ Settled /\ Addressed /\ InHand
  BY <1>2 DEF Init, Distinct, Settled, Addressed, InHand
<1>4. ASSUME NEW s \in Streams PROVE Kept(s) /\ InLine(s) /\ Closes(s)
  <2>1. Base(s) = 0 /\ taken[s] = 0
    BY DEF Init, Base, Handed
  <2>2. Kept(s) /\ Closes(s)
    BY <2>1 DEF Init, Kept, Closes
  <2>3. InLine(s)
    BY <1>2, <2>1, ValuesAre DEF InLine
  <2> QED  BY <2>2, <2>3
<1>5. Fresh
  BY DEF Init, Fresh
<1> QED  BY <1>1, <1>3, <1>4, <1>5 DEF StreamInv, Ordered

LEMMA StreamInvNext == StreamInv /\ [Next]_vars => StreamInv'
<1> SUFFICES ASSUME StreamInv, [Next]_vars PROVE crashed' \/ Ordered'
  BY TableInvNext, FreshNext DEF StreamInv, TableInv
<1> USE DEF StreamInv
<1>1. ASSUME UNCHANGED vars, Ordered PROVE Ordered'
  <2>1. Line' = Line
    BY <1>1, LineStays DEF vars
  <2>2. Quiet
    BY <1>1, <2>1, WindowStays, SameQuiet DEF TableInv, vars
  <2>3. \A s \in Streams : QuietCloses(s)
    BY <1>1, SameCloses DEF vars
  <2> QED  BY <1>1, <2>2, <2>3, QuietKeeps
<1>2. CASE Next
  <2>0. TableInv /\ Ordered
    BY <1>2 DEF Next
  <2>1. CASE ServerStep
    BY <2>0, <2>1, HandleChanOutOrdered, FRegisterOrdered, ServerSmallOrdered, FTakesOrdered
    DEF ServerStep, FStep
  <2>2. CASE RStep
    BY <2>0, <2>2, ROrdered
  <2>3. CASE WStep
    BY <2>0, <2>3, WDropOrdered, WResponseOrdered, WLookupOrdered, WValueOrdered, WFinishesOrdered DEF WStep
  <2>4. CASE Environment
    BY <2>0, <2>4, EnvironmentOrdered
  <2>5. CASE \E s \in Streams : PumpStep(s) \/ Receive(s)
    BY <2>0, <2>5, PumpSmallOrdered, ProgramOrdered DEF PumpStep
  <2> QED  BY <1>2, <2>1, <2>2, <2>3, <2>4, <2>5 DEF Next
<1>3. CASE UNCHANGED vars
  BY <1>1, <1>3 DEF vars
<1> QED  BY <1>2, <1>3

LEMMA StreamInvAlways == Spec => []StreamInv
  BY StreamInvInit, StreamInvNext, PTL DEF Spec

-----------------------------------------------------------------------------
(* Every step is one that Stream allows                                    *)

LEMMA MadeAre ==
  ASSUME TypeOK, NEW s \in Streams
  PROVE  /\ Made(s) \in Seq({s} \X Nat) /\ Len(Made(s)) = taken[s] /\ taken[s] \in Nat
         /\ \A n \in 1 .. taken[s] : Made(s)[n] = <<s, n>>
<1>1. taken[s] \in Nat
  BY DEF TypeOK, SrcTypes
<1>2. Made(s) \in [1 .. taken[s] -> {s} \X Nat]
  BY <1>1 DEF Made
<1>3. Made(s) \in Seq({s} \X Nat)
  BY <1>1, <1>2, SeqDef
<1>4. Len(Made(s)) = taken[s]
  BY <1>1, <1>2, <1>3, LenProperties DEF Made
<1> QED  BY <1>1, <1>3, <1>4 DEF Made

LEMMA StreamStutters ==
  ASSUME UNCHANGED <<taken, srcClosed, got, conn, ctxDone>>,
         \A s \in Streams : (pump'[s] = "gone") <=> (pump[s] = "gone")
  PROVE  UNCHANGED Promise!vars
<1>1. [s \in Streams |-> Made(s)]' = [s \in Streams |-> Made(s)]
  BY DEF Made
<1>2. [s \in Streams |-> pump[s] = "gone"]' = [s \in Streams |-> pump[s] = "gone"]
  BY Zenon
<1>3. (conn = "down")' = (conn = "down")
  BY Zenon
<1> QED  BY <1>1, <1>2, <1>3 DEF Promise!vars

LEMMA ReceiveMakes ==
  ASSUME TypeOK, NEW i \in 1 .. Len(cases), FReceive(i)
  PROVE  Promise!Next
<1>1. PICK s \in Streams : s = cases[i]
  BY ElementOfSeq DEF TypeOK, FwdTypes
<1>2. /\ ~srcClosed[s] /\ taken' = [taken EXCEPT ![s] = @ + 1]
      /\ UNCHANGED <<srcClosed, got, pump, conn, ctxDone>>
  BY <1>1 DEF FReceive, netVars, clientVars, progVars, pumpVars
<1>3. /\ taken \in [Streams -> Nat] /\ taken[s] \in Nat /\ taken'[s] = taken[s] + 1
      /\ \A t \in Streams \ {s} : taken'[t] = taken[t]
  BY <1>2 DEF TypeOK, SrcTypes
<1>4. Made(s)' = Append(Made(s), <<s, Len(Made(s)) + 1>>)
  <2>1. /\ Made(s) \in Seq({s} \X Nat) /\ Len(Made(s)) = taken[s]
        /\ \A n \in 1 .. taken[s] : Made(s)[n] = <<s, n>>
    BY MadeAre
  <2>2. <<s, taken[s] + 1>> \in {s} \X Nat
    BY <1>3
  <2>3. /\ Append(Made(s), <<s, taken[s] + 1>>) \in Seq({s} \X Nat)
        /\ Len(Append(Made(s), <<s, taken[s] + 1>>)) = taken[s] + 1
        /\ Append(Made(s), <<s, taken[s] + 1>>)[taken[s] + 1] = <<s, taken[s] + 1>>
        /\ \A n \in 1 .. taken[s] : Append(Made(s), <<s, taken[s] + 1>>)[n] = Made(s)[n]
    BY <2>1, <2>2, AppendTo
  <2>4. Made(s)' = [n \in 1 .. taken[s] + 1 |-> <<s, n>>]
    BY <1>3 DEF Made
  <2>5. [n \in 1 .. taken[s] + 1 |-> <<s, n>>] \in Seq({s} \X Nat)
    <3>1. [n \in 1 .. taken[s] + 1 |-> <<s, n>>] \in [1 .. taken[s] + 1 -> {s} \X Nat]
      BY <1>3
    <3> QED  BY <1>3, <3>1, SeqDef
  <2>6. Len([n \in 1 .. taken[s] + 1 |-> <<s, n>>]) = taken[s] + 1
    BY <1>3, <2>5, LenProperties
  <2>7. \A n \in 1 .. taken[s] + 1 :
          [k \in 1 .. taken[s] + 1 |-> <<s, k>>][n] = Append(Made(s), <<s, taken[s] + 1>>)[n]
    BY <1>3, <2>1, <2>3
  <2>8. [n \in 1 .. taken[s] + 1 |-> <<s, n>>] = Append(Made(s), <<s, taken[s] + 1>>)
    BY <2>3, <2>5, <2>6, <2>7, SeqEqual
  <2> QED  BY <2>1, <2>4, <2>8
<1>5. \A t \in Streams \ {s} : Made(t)' = Made(t)
  BY <1>3 DEF Made
<1>6. Promise!Make(s)
  <2>1. [t \in Streams |-> Made(t)]' =
          [[t \in Streams |-> Made(t)] EXCEPT ![s] = Append(@, <<s, Len(@) + 1>>)]
    BY <1>4, <1>5
  <2>2. [t \in Streams |-> pump[t] = "gone"]' = [t \in Streams |-> pump[t] = "gone"]
    BY <1>2, Zenon
  <2>3. (conn = "down")' = (conn = "down")
    BY <1>2, Zenon
  <2> QED  BY <1>2, <2>1, <2>2, <2>3 DEF Promise!Make
<1> QED  BY <1>6 DEF Promise!Next

LEMMA ReceiveGets ==
  ASSUME TypeOK, Ordered, NEW s \in Streams, Receive(s)
  PROVE  Promise!Next
<1>1. /\ pump[s] = "run" /\ buf[s] # <<>> /\ got' = [got EXCEPT ![s] = Append(@, Head(buf[s]))]
      /\ UNCHANGED <<taken, srcClosed, pump, conn, ctxDone>>
  BY DEF Receive, farVars, serverVars, srcVars
<1>2. buf[s] \in Seq(Values) /\ got \in [Streams -> Seq(Values)]
  BY DEF TypeOK, PumpTypes
<1>3. Head(buf[s]) = buf[s][1] /\ Len(buf[s]) \in Nat \ {0}
  BY <1>1, <1>2, TailOf
<1>4. PICK g \in Nat, b \in Nat, i \in Nat : g = Len(got[s]) /\ b = Len(buf[s]) /\ i = Len(incoming[s])
  BY BaseAre
<1>5. b # 0 /\ b \in Nat /\ g \in Nat /\ i \in Nat
  BY <1>3, <1>4
<1>6. g + b + i <= taken[s] /\ taken[s] \in Nat
  <2>1. /\ Handed(s) = g + b + i /\ Handed(s) \in Nat /\ Base(s) \in Nat /\ taken[s] \in Nat
        /\ Base(s) = IF wpc = "value" /\ wfor = s THEN Handed(s) + 1 ELSE Handed(s)
    BY <1>4, BaseAre, Zenon
  <2>2. Base(s) <= taken[s]
    BY DEF Ordered, Kept
  <2> QED  BY <1>5, <2>1, <2>2
<1>7. g < taken[s] /\ g + 1 \in 1 .. taken[s]
  BY <1>5, <1>6
<1>8. Head(buf[s]) = <<s, g + 1>>
  <2>1. \A n \in 1 .. b : buf[s][n] = <<s, g + n>>
    BY <1>4 DEF Ordered, Kept
  <2> QED  BY <1>3, <1>5, <2>1
<1>9. Made(s)[g + 1] = <<s, g + 1>> /\ Len(Made(s)) = taken[s]
  BY <1>7, MadeAre
<1>10. Promise!Get(s)
  <2> DEFINE made == [t \in Streams |-> Made(t)]
             ended == [t \in Streams |-> pump[t] = "gone"]
  <2>1. ~ended[s]
    BY <1>1
  <2>2. made[s] = Made(s)
    OBVIOUS
  <2>3. Len(got[s]) < Len(made[s])
    BY <1>4, <1>7, <1>9, <2>2
  <2>4. got' = [got EXCEPT ![s] = Append(@, made[s][Len(@) + 1])]
    <3>1. Head(buf[s]) = made[s][Len(got[s]) + 1]
      BY <1>4, <1>8, <1>9, <2>2
    <3> QED  BY <1>1, <1>2, <3>1
  <2>5. made' = made
    BY <1>1 DEF Made
  <2>6. ended' = ended
    BY <1>1, Zenon
  <2>7. (conn = "down")' = (conn = "down")
    BY <1>1, Zenon
  <2> QED  BY <1>1, <2>1, <2>3, <2>4, <2>5, <2>6, <2>7 DEF Promise!Get
<1> QED  BY <1>10 DEF Promise!Next

(* The program's channel is closed early only if the connection is gone or *)
(* the context is done: otherwise it has all that the handler sent.        *)
LEMMA EndIsComplete ==
  ASSUME TypeOK, Ordered, NEW s \in Streams, inNil[s], buf[s] = <<>>, conn = "up", ~ctxDone[s]
  PROVE  srcClosed[s] /\ got[s] = Made(s)
<1>1. /\ got[s] \in Seq(Values) /\ Made(s) \in Seq({s} \X Nat) /\ Len(Made(s)) = taken[s]
      /\ \A n \in 1 .. taken[s] : Made(s)[n] = <<s, n>>
  BY MadeAre DEF TypeOK, PumpTypes
<1>2. srcClosed[s] /\ Handed(s) = taken[s] /\ incoming[s] = <<>>
  BY DEF Ordered, Closes
<1>3. Len(got[s]) = taken[s]
  <2>1. Len(incoming[s]) = 0 /\ Len(buf[s]) = 0
    BY <1>2
  <2>2. PICK g \in Nat : g = Len(got[s])
    BY BaseAre
  <2>3. Handed(s) = g + 0 + 0
    BY <2>1, <2>2, BaseAre, Zenon
  <2>4. g + 0 + 0 = g
    BY <2>2
  <2> QED  BY <1>2, <2>2, <2>3, <2>4, Zenon
<1>4. \A n \in 1 .. Len(got[s]) : got[s][n] = <<s, n>>
  BY DEF Ordered, Kept
<1>5. Made(s) \in Seq(Values)
  <2>1. taken[s] \in Nat /\ taken[s] <= MaxValues[s] /\ MaxValues[s] \in Nat
    BY OutChansAssumption DEF TypeOK, SrcTypes
  <2>2. \A n \in 1 .. taken[s] : <<s, n>> \in Values
    BY <2>1 DEF Values
  <2>3. Made(s) \in [1 .. taken[s] -> Values]
    BY <2>2 DEF Made
  <2> QED  BY <2>1, <2>3, SeqDef
<1>6. \A n \in 1 .. Len(got[s]) : got[s][n] = Made(s)[n]
  BY <1>1, <1>3, <1>4
<1> QED  BY <1>1, <1>2, <1>3, <1>5, <1>6, SeqEqual

LEMMA PumpEndsEnds ==
  ASSUME TypeOK, Ordered, NEW s \in Streams, PumpEnds(s)
  PROVE  Promise!Next
<1>1. /\ pump[s] = "run" /\ pump' = [pump EXCEPT ![s] = "gone"]
      /\ (inNil[s] /\ buf[s] = <<>>) \/ ctxDone[s]
      /\ UNCHANGED <<taken, srcClosed, got, conn, ctxDone>>
  BY DEF PumpEnds, farVars, serverVars, srcVars
<1>2. conn \in {"up", "down"} /\ pump \in [Streams -> {"none", "run", "gone"}]
  BY DEF TypeOK, NetTypes, PumpTypes
<1>3. (srcClosed[s] /\ got[s] = Made(s)) \/ conn = "down" \/ ctxDone[s]
  BY <1>1, <1>2, EndIsComplete
<1>4. Promise!End(s)
  <2> DEFINE made == [t \in Streams |-> Made(t)]
             ended == [t \in Streams |-> pump[t] = "gone"]
  <2>1. ~ended[s]
    BY <1>1
  <2>2. Promise!Complete(s) \/ conn = "down" \/ ctxDone[s]
    BY <1>3 DEF Promise!Complete
  <2>3. ended' = [ended EXCEPT ![s] = TRUE]
    <3>1. \A t \in Streams : (pump'[t] = "gone") <=> (IF t = s THEN TRUE ELSE pump[t] = "gone")
      BY <1>1, <1>2
    <3>2. [t \in Streams |-> pump'[t] = "gone"] = [t \in Streams |-> IF t = s THEN TRUE ELSE pump[t] = "gone"]
      BY <3>1
    <3> QED  BY <3>2
  <2>4. made' = made
    BY <1>1 DEF Made
  <2>5. (conn = "down")' = (conn = "down")
    BY <1>1, Zenon
  <2> QED  BY <1>1, <2>1, <2>2, <2>3, <2>4, <2>5 DEF Promise!End
<1> QED  BY <1>4 DEF Promise!Next

LEMMA EnvironmentMoves ==
  ASSUME TypeOK, Environment
  PROVE  [Promise!Next]_(Promise!vars)
<1>1. ASSUME NEW s \in Streams, Call(s) PROVE UNCHANGED Promise!vars
  BY <1>1, StreamStutters DEF Call, progVars, pumpVars
<1>2. ASSUME NEW s \in Streams, SourceCloses(s) PROVE Promise!Next
  <2>1. /\ srcClosed' = [srcClosed EXCEPT ![s] = TRUE]
        /\ UNCHANGED <<taken, got, pump, conn, ctxDone>>
    BY <1>2 DEF SourceCloses, netVars, clientVars, progVars, pumpVars
  <2>2. [t \in Streams |-> Made(t)]' = [t \in Streams |-> Made(t)]
    BY <2>1 DEF Made
  <2>3. [t \in Streams |-> pump[t] = "gone"]' = [t \in Streams |-> pump[t] = "gone"]
    BY <2>1, Zenon
  <2>4. (conn = "down")' = (conn = "down")
    BY <2>1, Zenon
  <2>5. Promise!Close(s)
    BY <2>1, <2>2, <2>3, <2>4 DEF Promise!Close
  <2> QED  BY <2>5 DEF Promise!Next
<1>3. ASSUME NEW s \in Streams, CtxEnds(s) PROVE Promise!Next
  <2>1. /\ ctxDone' = [ctxDone EXCEPT ![s] = TRUE]
        /\ UNCHANGED <<taken, srcClosed, got, pump, conn>>
    BY <1>3 DEF CtxEnds, farVars, serverVars, srcVars, pumpVars
  <2>2. [t \in Streams |-> Made(t)]' = [t \in Streams |-> Made(t)]
    BY <2>1 DEF Made
  <2>3. [t \in Streams |-> pump[t] = "gone"]' = [t \in Streams |-> pump[t] = "gone"]
    BY <2>1, Zenon
  <2>4. (conn = "down")' = (conn = "down")
    BY <2>1, Zenon
  <2>5. Promise!Give(s)
    BY <2>1, <2>2, <2>3, <2>4 DEF Promise!Give
  <2> QED  BY <2>5 DEF Promise!Next
<1>4. CASE ConnEnds
  <2>1. /\ conn' = "down" /\ UNCHANGED <<taken, srcClosed, got, pump, ctxDone>>
    BY <1>4 DEF ConnEnds, serverVars, srcVars, clientVars, progVars, pumpVars
  <2>2. [t \in Streams |-> Made(t)]' = [t \in Streams |-> Made(t)]
    BY <2>1 DEF Made
  <2>3. [t \in Streams |-> pump[t] = "gone"]' = [t \in Streams |-> pump[t] = "gone"]
    BY <2>1, Zenon
  <2>4. (conn = "down")' = TRUE
    BY <2>1, Zenon
  <2>5. Promise!Break
    BY <2>1, <2>2, <2>3, <2>4 DEF Promise!Break
  <2> QED  BY <2>5 DEF Promise!Next
<1> QED  BY <1>1, <1>2, <1>3, <1>4 DEF Environment

(* W starts the goroutine of a stream that had none, so nothing that was   *)
(* closed is open again.                                                   *)
LEMMA ClientMoves ==
  ASSUME TypeOK, Fresh, RStep \/ WStep
  PROVE  UNCHANGED Promise!vars
<1>1. CASE RStep \/ WDrop \/ WReady \/ WLookup \/ WValue \/ WClose \/ WLeave
  <2>1. UNCHANGED <<taken, srcClosed, got, pump, conn, ctxDone>>
    BY <1>1 DEF RStep, RRead, RPush, RLeave, RLookup, RClose, RChansDone, RAnswer, RPick, WDrop, WReady,
       WLookup, WValue, WClose, WLeave, farVars, serverVars, srcVars, progVars, pumpVars
  <2> QED  BY <2>1, StreamStutters
<1>2. CASE WResponse
  <2>1. PICK m : m = Head(frames)
    OBVIOUS
  <2>2. /\ wpc = "select" /\ m.req \in inflight /\ pump' = [pump EXCEPT ![m.req] = "run"]
        /\ UNCHANGED <<taken, srcClosed, got, conn, ctxDone>>
    BY <1>2, <2>1 DEF WResponse, farVars, serverVars, srcVars
  <2>3. pump \in [Streams -> {"none", "run", "gone"}] /\ inflight \subseteq Streams
    BY DEF TypeOK, PumpTypes, CallTypes
  <2>4. pump[m.req] = "none" /\ pump'[m.req] = "run"
    BY <2>2, <2>3 DEF Fresh
  <2>5. \A s \in Streams : (pump'[s] = "gone") <=> (pump[s] = "gone")
    BY <2>2, <2>3, <2>4
  <2> QED  BY <2>2, <2>5, StreamStutters
<1> QED  BY <1>1, <1>2 DEF WStep

LEMMA ServerMoves ==
  ASSUME TypeOK, ServerStep
  PROVE  [Promise!Next]_(Promise!vars)
<1>1. ASSUME NEW s \in Streams, HandleChanOut(s) \/ ChanOutFails(s) \/ FRegister(s)
      PROVE  UNCHANGED Promise!vars
  <2>1. UNCHANGED <<taken, srcClosed, got, pump, conn, ctxDone>>
    BY <1>1 DEF HandleChanOut, ChanOutFails, FRegister, netVars, clientVars, progVars, pumpVars
  <2> QED  BY <2>1, StreamStutters
<1>2. ASSUME NEW i \in 1 .. Len(cases), FClosed(i) PROVE UNCHANGED Promise!vars
  <2>1. UNCHANGED <<taken, srcClosed, got, pump, conn, ctxDone>>
    BY <1>2 DEF FClosed, srcVars, netVars, clientVars, progVars, pumpVars
  <2> QED  BY <2>1, StreamStutters
<1>3. CASE FPut \/ FExit \/ ServerExits \/ ServerWritesInVain
  <2>1. UNCHANGED <<taken, srcClosed, got, pump, conn, ctxDone>>
    BY <1>3 DEF FPut, FExit, ServerExits, ServerWritesInVain, serverVars, srcVars, netVars, clientVars,
       progVars, pumpVars
  <2> QED  BY <2>1, StreamStutters
<1> QED  BY <1>1, <1>2, <1>3, ReceiveMakes DEF ServerStep, FStep

LEMMA StreamStart == Init => Promise!Init
<1> SUFFICES ASSUME Init PROVE Promise!Init
  OBVIOUS
<1>1. ASSUME NEW s \in Streams PROVE Made(s) = <<>>
  <2>1. taken[s] = 0
    BY DEF Init
  <2>2. 1 .. 0 = {}
    OBVIOUS
  <2>3. Made(s) = [n \in {} |-> <<s, n>>]
    BY <2>1, <2>2 DEF Made
  <2>4. Made(s) \in [1 .. 0 -> {s} \X Nat]
    BY <2>2, <2>3
  <2>5. Made(s) \in Seq({s} \X Nat) /\ Len(Made(s)) = 0
    BY <2>3, <2>4, SeqDef, LenProperties
  <2> QED  BY <2>5, EmptySeq
<1>2. [s \in Streams |-> Made(s)] = [s \in Streams |-> <<>>]
  BY <1>1
<1>3. [s \in Streams |-> pump[s] = "gone"] = [s \in Streams |-> FALSE]
  BY DEF Init
<1>4. (conn = "down") = FALSE
  BY DEF Init
<1> QED  BY <1>2, <1>3, <1>4 DEF Init, Promise!Init

LEMMA StreamMoves == StreamInv /\ [Next]_vars => [Promise!Next]_(Promise!vars)
<1> SUFFICES ASSUME StreamInv, [Next]_vars PROVE [Promise!Next]_(Promise!vars)
  OBVIOUS
<1>0. TypeOK /\ Fresh
  BY DEF StreamInv, TableInv
<1>1. CASE UNCHANGED vars
  BY <1>1, StreamStutters DEF vars
<1>2. CASE Next
  <2>0. Ordered
    BY <1>2 DEF Next, StreamInv
  <2>1. CASE ServerStep
    BY <1>0, <2>1, ServerMoves
  <2>2. CASE RStep \/ WStep
    BY <1>0, <2>2, ClientMoves
  <2>3. CASE Environment
    BY <1>0, <2>3, EnvironmentMoves
  <2>4. ASSUME NEW s \in Streams, PumpStep(s) \/ Receive(s)
        PROVE  [Promise!Next]_(Promise!vars)
    <3>1. CASE PumpTake(s) \/ PumpSeesClose(s)
      <4>1. UNCHANGED <<taken, srcClosed, got, pump, conn, ctxDone>>
        BY <3>1 DEF PumpTake, PumpSeesClose, farVars, serverVars, srcVars
      <4> QED  BY <4>1, StreamStutters
    <3> QED  BY <1>0, <2>0, <2>4, <3>1, PumpEndsEnds, ReceiveGets DEF PumpStep
  <2> QED  BY <1>2, <2>1, <2>2, <2>3, <2>4 DEF Next
<1> QED  BY <1>1, <1>2

(* A program receives the values its handler sent, in their order, none    *)
(* twice and none left out; and its channel is closed before all are there *)
(* only if the connection is gone or its context is done - whatever the    *)
(* other streams do, with any number of values and any capacities          *)
(* (websocket.go:111-170, 302-351, client.go:267-393).                     *)
THEOREM StreamsAreKept == Spec => RefinesStream
  BY StreamStart, StreamMoves, StreamInvAlways, PTL DEF Spec, RefinesStream, Promise!Spec

(* What that comes to: whatever the connection and the other streams do, a *)
(* program has received the first values its handler sent, and its channel *)
(* is closed before it has all of them only if the connection is gone or   *)
(* its context is done (websocket.go:111-170, 302-351, client.go:267-393). *)
THEOREM PrefixIsReceived == Spec => [](Promise!PrefixReceived /\ Promise!EndedForCause)
<1>1. Promise!Spec => [](Promise!PrefixReceived /\ Promise!EndedForCause)
  BY Promise!StreamsDeliver
<1> QED  BY <1>1, StreamsAreKept, PTL DEF RefinesStream

=============================================================================
