----------------------- MODULE ChainVerificationProofs -----------------------
(***************************************************************************)
(* Theorems about chain verification, for any number of calls, hashes and  *)
(* blocks.  What a verdict rests on was read moments before it is saved,   *)
(* so the inductive invariant says what every reading in flight is still   *)
(* good for: the block it names held the row's transaction and still has   *)
(* what was read of it, and one found off the chain never comes back.      *)
(***************************************************************************)
EXTENDS ChainVerification, TLAPS

Observation == [read : {"no", "receipt", "complete"}, block : Blocks \cup {NoBlock},
                deep : BOOLEAN, ok : BOOLEAN, logs : BOOLEAN, canonical : BOOLEAN]
Call == [at : Steps, hash : Hashes \cup {NoHash}, previous : {"confirmed", "other"},
         previousBlock : Blocks \cup {NoBlock}, seen : [Sources -> Observation]]
Holding == [hash : Hashes \cup {NoHash}, depth : 0..FinalDepth, ok : BOOLEAN]

Holds(b, h) == mined[b].depth > 0 /\ mined[b].hash = h

\* What a source said is still so, but for the chain having grown.
ObservationSound(o, h, hidden) ==
    /\ o.read = "receipt" => o.block # NoBlock
    /\ o.block # NoBlock =>
         /\ Holds(o.block, h) /\ (o.ok <=> mined[o.block].ok)
         /\ o.deep => mined[o.block].depth >= MinConfirmations
         /\ o.read = "complete" /\ ~o.canonical => canonical # o.block
         /\ o.read = "complete" /\ o.canonical /\ ~o.logs => o.block \in hidden

CallSound(k, hidden) ==
    /\ k.at # "idle" => k.hash \in Hashes /\ k.hash = row.txHash
    /\ k.previousBlock # NoBlock => Holds(k.previousBlock, k.hash)
    /\ \A s \in Sources : ObservationSound(k.seen[s], k.hash, hidden)

WrongOrUnshown(b) == ~mined[b].ok \/ b \in unshown
RowSound ==
    /\ row.txHash = NoHash => row.blockHash = NoBlock
    /\ row.blockHash # NoBlock => Holds(row.blockHash, row.txHash)
    /\ row.status = "confirmed" =>
         /\ row.blockHash # NoBlock /\ mined[row.blockHash].ok
         /\ mined[row.blockHash].depth >= MinConfirmations
    /\ row.status = "failed" => \E b \in Blocks : Holds(b, row.txHash) /\ WrongOrUnshown(b)

\* A block on the chain has a depth.
OnChain == canonical # NoBlock => mined[canonical].depth > 0

ChainIInv == ChainTypeOK /\ RowSound /\ OnChain /\ \A c \in Calls : CallSound(calls[c], unshown)

LEMMA InitChainIInv == Init => ChainIInv
<1>. SUFFICES ASSUME Init PROVE ChainIInv
  OBVIOUS
<1>1. Unread \in Observation /\ Unread.block = NoBlock /\ Unread.read = "no"
  BY DEF Unread, Observation
<1>2. /\ IdleCall \in Call /\ IdleCall.at = "idle" /\ IdleCall.previousBlock = NoBlock
      /\ \A s \in Sources : IdleCall.seen[s] = Unread
  BY <1>1 DEF IdleCall, Call, Steps
<1>3. ChainTypeOK
  BY <1>2, VerificationConstants DEF Init, ChainTypeOK, Call, Observation, Statuses
<1>4. RowSound
  BY DEF Init, RowSound
<1>5. \A c \in Calls : CallSound(calls[c], unshown)
  BY <1>1, <1>2 DEF Init, CallSound, ObservationSound
<1>6. OnChain
  BY DEF Init, OnChain
<1>. QED
  BY <1>3, <1>4, <1>5, <1>6 DEF ChainIInv

LEMMA Typed ==
  ASSUME ChainTypeOK
  PROVE  /\ row \in [txHash : Hashes \cup {NoHash}, status : Statuses,
                     blockHash : Blocks \cup {NoBlock}]
         /\ calls \in [Calls -> Call] /\ canonical \in Blocks \cup {NoBlock}
         /\ mined \in [Blocks -> Holding] /\ outages \in 0..MaxOutages
         /\ standing \in Blocks \cup {NoBlock} /\ unshown \in SUBSET Blocks
BY DEF ChainTypeOK, Call, Observation, Holding

\* The chain grows or is reorganized: blocks that held a transaction hold it still, and
\* one off the chain stays off it.
LEMMA ChainMovesKeeps ==
  ASSUME ChainIInv, UNCHANGED <<row, calls, standing, outages, unshown>>,
         mined' \in [Blocks -> Holding], canonical' \in Blocks \cup {NoBlock},
         \A b \in Blocks : mined[b].depth > 0 =>
            /\ mined'[b].hash = mined[b].hash /\ (mined'[b].ok <=> mined[b].ok)
            /\ mined'[b].depth >= mined[b].depth
            /\ canonical # b => canonical' # b,
         canonical' # NoBlock => mined'[canonical'].depth > 0
  PROVE  ChainIInv'
<1>1. ChainTypeOK /\ ChainTypeOK'
  BY DEF ChainIInv, ChainTypeOK, Holding
<1>2. /\ \A b \in Blocks : mined[b].depth \in Nat /\ mined'[b].depth \in Nat
      /\ MinConfirmations \in Nat \ {0}
  BY <1>1, Typed, VerificationConstants DEF Holding
<1>3. RowSound'
  <2>1. row.blockHash \in Blocks \cup {NoBlock}
    BY <1>1, Typed
  <2>. QED
    BY <1>2, <2>1 DEF ChainIInv, RowSound, Holds, WrongOrUnshown
<1>4. ASSUME NEW c \in Calls PROVE CallSound(calls[c], unshown)'
  <2>1. PICK k \in Call : k = calls[c]
    BY <1>1, Typed
  <2>2. k.previousBlock \in Blocks \cup {NoBlock} /\ CallSound(k, unshown)
    BY <2>1 DEF Call, ChainIInv
  <2>3. \A s \in Sources : k.seen[s] \in Observation
    BY DEF Call
  <2>4. k.previousBlock # NoBlock => Holds(k.previousBlock, k.hash)'
    BY <1>2, <2>2 DEF CallSound, Holds
  <2>5. ASSUME NEW s \in Sources PROVE ObservationSound(k.seen[s], k.hash, unshown)'
    <3>1. PICK o \in Observation : o = k.seen[s]
      BY <2>3
    <3>2. ObservationSound(o, k.hash, unshown) /\ o.block \in Blocks \cup {NoBlock}
      BY <2>2, <3>1 DEF CallSound, Observation
    <3>3. ObservationSound(o, k.hash, unshown)'
      BY <1>2, <3>2 DEF ObservationSound, Holds
    <3>. QED
      BY <3>1, <3>3
  <2>6. CallSound(k, unshown)'
    BY <2>2, <2>4, <2>5 DEF CallSound
  <2>. QED
    BY <2>1, <2>6
<1>. QED
  BY <1>1, <1>3, <1>4 DEF ChainIInv, OnChain

LEMMA ChainStepKeeps ==
  ASSUME ChainIInv,
         \/ \E h \in Hashes, ok \in BOOLEAN : Mine(h, ok)
         \/ Extend \/ Reorganize
  PROVE  ChainIInv'
<1>1. /\ mined \in [Blocks -> Holding] /\ canonical \in Blocks \cup {NoBlock}
      /\ FinalDepth \in Nat /\ FinalDepth > 0
  BY Typed, VerificationConstants DEF ChainIInv
<1>2. \A b \in Blocks : mined[b].depth \in 0..FinalDepth
  BY <1>1 DEF Holding
<1>3. CASE \E h \in Hashes, ok \in BOOLEAN : Mine(h, ok)
  <2>1. PICK h \in Hashes, ok \in BOOLEAN : Mine(h, ok)
    BY <1>3
  <2>2. PICK fresh : fresh = CHOOSE b \in Blocks : mined[b].depth = 0
    OBVIOUS
  <2>3. fresh \in Blocks /\ mined[fresh].depth = 0
    BY <2>1, <2>2 DEF Mine
  <2>. DEFINE m == [hash |-> h, depth |-> 1, ok |-> ok]
  <2>4. m \in Holding
    BY <1>1 DEF Holding
  <2>. HIDE DEF m
  <2>5. /\ mined' = [mined EXCEPT ![fresh] = m] /\ canonical' = fresh
        /\ UNCHANGED <<row, calls, standing, outages, unshown>>
    BY <2>1, <2>2 DEF Mine, m
  <2>6. mined' \in [Blocks -> Holding]
    BY <1>1, <2>3, <2>4, <2>5
  <2>7. /\ \A b \in Blocks : mined[b].depth > 0 => b # fresh /\ mined'[b] = mined[b]
        /\ mined'[fresh].depth = 1
    <3>1. m.depth = 1
      BY DEF m
    <3>. QED
      BY <1>1, <2>3, <2>5, <3>1
  <2>. QED
    BY <1>2, <2>3, <2>5, <2>6, <2>7, ChainMovesKeeps
<1>4. CASE Extend
  <2>1. PICK b \in Blocks : b = canonical
    BY <1>1, <1>4 DEF Extend
  <2>. DEFINE m == [mined[b] EXCEPT !.depth = @ + 1]
  <2>2. /\ m \in Holding /\ m.hash = mined[b].hash /\ m.ok = mined[b].ok
        /\ m.depth = mined[b].depth + 1
    BY <1>1, <1>2, <1>4, <2>1 DEF Extend, Holding
  <2>3. /\ mined' = [mined EXCEPT ![b] = m]
        /\ UNCHANGED <<row, calls, standing, outages, canonical, unshown>>
    BY <1>4, <2>1 DEF Extend
  <2>. HIDE DEF m
  <2>4. mined' \in [Blocks -> Holding]
    BY <1>1, <2>2, <2>3
  <2>5. \A x \in Blocks : mined'[x] = IF x = b THEN m ELSE mined[x]
    BY <1>1, <2>3
  <2>. QED
    <3>1. canonical' = b /\ mined'[b].depth > 0
      BY <1>2, <2>1, <2>2, <2>3, <2>5
    <3>2. \A x \in Blocks : mined[x].depth > 0 =>
            /\ mined'[x].hash = mined[x].hash /\ (mined'[x].ok <=> mined[x].ok)
            /\ mined'[x].depth >= mined[x].depth
      BY <1>2, <2>2, <2>5
    <3>. QED
      BY <1>1, <2>3, <2>4, <3>1, <3>2, ChainMovesKeeps
<1>5. CASE Reorganize
  <2>1. /\ mined' = mined /\ canonical' = NoBlock
        /\ UNCHANGED <<row, calls, standing, outages, unshown>>
    BY <1>5 DEF Reorganize
  <2>2. NoBlock \notin Blocks
    BY VerificationConstants
  <2>. QED
    BY <1>1, <1>2, <2>1, <2>2, ChainMovesKeeps
<1>. QED
  BY <1>3, <1>4, <1>5

\* A step of one call that leaves the row and the chain alone.
LEMMA CallMoves ==
  ASSUME ChainIInv, NEW c \in Calls, NEW k \in Call, NEW hidden \in SUBSET Blocks, CallSound(k, hidden),
         calls' = [calls EXCEPT ![c] = k], outages' \in 0..MaxOutages,
         unshown' = hidden, unshown \subseteq hidden,
         UNCHANGED <<row, canonical, mined, standing>>
  PROVE  ChainIInv'
<1>1. calls \in [Calls -> Call] /\ ChainTypeOK
  BY Typed DEF ChainIInv
<1>2. calls' \in [Calls -> Call]
  BY <1>1
<1>3. ChainTypeOK'
  BY <1>1, <1>2 DEF ChainTypeOK, Call, Observation
<1>4. RowSound'
  BY DEF ChainIInv, RowSound, Holds, WrongOrUnshown
<1>5. ASSUME NEW d \in Calls PROVE CallSound(calls[d], unshown)'
  <2>1. PICK e : e = calls'[d]
    OBVIOUS
  <2>2. CallSound(e, hidden)
    <3>1. CASE d = c
      BY <1>1, <2>1, <3>1
    <3>2. CASE d # c
      <4>1. CallSound(e, unshown)
        BY <1>1, <2>1, <3>2 DEF ChainIInv
      <4>. QED
        BY <4>1 DEF CallSound, ObservationSound
    <3>. QED
      BY <3>1, <3>2
  <2>3. CallSound(e, unshown)'
    BY <2>2 DEF CallSound, ObservationSound, Holds
  <2>. QED
    BY <2>1, <2>3
<1>. QED
  BY <1>3, <1>4, <1>5 DEF ChainIInv, OnChain

LEMMA FreshCall ==
  /\ IdleCall \in Call /\ CallSound(IdleCall, unshown)
  /\ \A h \in Hashes : h = row.txHash =>
       /\ [IdleCall EXCEPT !.at = "findStatus", !.hash = h] \in Call
       /\ CallSound([IdleCall EXCEPT !.at = "findStatus", !.hash = h], unshown)
<1>1. Unread \in Observation /\ Unread.block = NoBlock /\ Unread.read = "no"
  BY DEF Unread, Observation
<1>2. /\ IdleCall \in Call /\ IdleCall.at = "idle" /\ IdleCall.previousBlock = NoBlock
      /\ \A s \in Sources : IdleCall.seen[s] = Unread
  BY <1>1 DEF IdleCall, Call, Steps
<1>3. CallSound(IdleCall, unshown)
  BY <1>1, <1>2 DEF CallSound, ObservationSound
<1>4. ASSUME NEW h \in Hashes, h = row.txHash, NEW k,
             k = [IdleCall EXCEPT !.at = "findStatus", !.hash = h]
      PROVE  k \in Call /\ CallSound(k, unshown)
  <2>1. /\ k.at = "findStatus" /\ k.hash = h /\ k.previousBlock = NoBlock
        /\ \A s \in Sources : k.seen[s] = Unread
    BY <1>2, <1>4 DEF IdleCall
  <2>2. k \in Call
    BY <1>2, <1>4 DEF Call, Steps
  <2>. QED
    BY <1>1, <1>4, <2>1, <2>2 DEF CallSound, ObservationSound
<1>. QED
  BY <1>2, <1>3, <1>4

\* A submission binds its hash to the row, or comes with the one that is bound.
LEMMA SubmitKeeps ==
  ASSUME ChainIInv, NEW c \in Calls, NEW h \in Hashes, Submit(c, h)
  PROVE  ChainIInv'
<1>1. /\ ChainTypeOK /\ calls \in [Calls -> Call] /\ NoHash \notin Hashes
      /\ row \in [txHash : Hashes \cup {NoHash}, status : Statuses,
                  blockHash : Blocks \cup {NoBlock}]
  BY Typed, VerificationConstants DEF ChainIInv
<1>2. /\ row.txHash \in {NoHash, h} /\ UNCHANGED <<canonical, mined, outages, standing, unshown>>
      /\ row' = [row EXCEPT !.txHash = h, !.status = "submitted"]
  BY DEF Submit, MayBind
<1>3. /\ row'.txHash = h /\ row'.status = "submitted" /\ row'.blockHash = row.blockHash
      /\ row' \in [txHash : Hashes \cup {NoHash}, status : Statuses,
                   blockHash : Blocks \cup {NoBlock}]
  BY <1>1, <1>2 DEF Statuses
<1>. DEFINE k == [IdleCall EXCEPT !.at = "findStatus", !.hash = h]
<1>4. /\ k \in Call /\ k.hash = h /\ k.at = "findStatus" /\ k.previousBlock = NoBlock
      /\ \A s \in Sources : k.seen[s] = Unread
  BY FreshCall DEF IdleCall, Call, Steps, Unread, Observation
<1>5. calls' = [calls EXCEPT ![c] = k]
  BY DEF Submit
<1>. HIDE DEF k
<1>6. calls' \in [Calls -> Call]
  BY <1>1, <1>4, <1>5
<1>7. ChainTypeOK'
  BY <1>1, <1>2, <1>3, <1>6 DEF ChainTypeOK, Call, Observation
<1>8. RowSound'
  <2>1. row.blockHash # NoBlock => row.txHash = h /\ Holds(row.blockHash, h)
    BY <1>2 DEF ChainIInv, RowSound
  <2>. QED
    BY <1>1, <1>2, <1>3, <2>1 DEF RowSound, Holds, WrongOrUnshown
<1>9. ASSUME NEW d \in Calls PROVE CallSound(calls[d], unshown)'
  <2>1. PICK e : e = calls'[d]
    OBVIOUS
  <2>2. CASE d = c
    <3>1. e = k
      BY <1>1, <1>5, <2>1, <2>2
    <3>2. Unread.block = NoBlock /\ Unread.read = "no"
      BY DEF Unread
    <3>3. CallSound(e, unshown)'
      BY <1>3, <1>4, <3>1, <3>2 DEF CallSound, ObservationSound
    <3>. QED
      BY <2>1, <3>3
  <2>3. CASE d # c
    <3>1. e = calls[d]
      BY <1>1, <1>5, <2>1, <2>3
    <3>2. CallSound(e, unshown)
      BY <3>1 DEF ChainIInv
    <3>3. e.at # "idle" => e.hash = h
      BY <1>1, <1>2, <3>2 DEF CallSound
    <3>4. CallSound(e, unshown)'
      BY <1>2, <1>3, <3>2, <3>3 DEF CallSound, ObservationSound, Holds
    <3>. QED
      BY <2>1, <3>4
  <2>. QED
    BY <2>2, <2>3
<1>. QED
  BY <1>2, <1>7, <1>8, <1>9 DEF ChainIInv, OnChain

\* What the row knew is read one query at a time.
LEMMA FindKeeps ==
  ASSUME ChainIInv, NEW c \in Calls, FindStatus(c) \/ FindBlock(c)
  PROVE  ChainIInv'
<1>1. PICK k \in Call : k = calls[c]
  BY Typed DEF ChainIInv
<1>2. /\ CallSound(k, unshown) /\ k.at # "idle" /\ UNCHANGED <<row, canonical, mined, outages, standing, unshown>>
      /\ row.blockHash \in Blocks \cup {NoBlock} /\ outages \in 0..MaxOutages
  BY <1>1, Typed DEF ChainIInv, FindStatus, FindBlock
<1>2a. PICK hidden \in SUBSET Blocks : hidden = unshown /\ unshown' = hidden /\ unshown \subseteq hidden
  BY <1>2, Typed DEF ChainIInv
<1>3. CASE FindStatus(c)
  <2>1. PICK p : p = IF row.status = "confirmed" THEN "confirmed" ELSE "other"
    OBVIOUS
  <2>. DEFINE r == [k EXCEPT !.at = "findBlock", !.previous = p]
  <2>2. /\ r \in Call /\ r.at = "findBlock" /\ r.hash = k.hash /\ r.seen = k.seen
        /\ r.previousBlock = k.previousBlock
    BY <2>1 DEF Call, Steps
  <2>3. calls' = [calls EXCEPT ![c] = r]
    BY <1>1, <1>3, <2>1 DEF FindStatus
  <2>. HIDE DEF r
  <2>4. CallSound(r, unshown)
    BY <1>2, <2>2 DEF CallSound
  <2>. QED
    BY <1>2, <1>2a, <2>2, <2>3, <2>4, CallMoves
<1>4. CASE FindBlock(c)
  <2>1. PICK b \in Blocks \cup {NoBlock} :
             b = IF k.previous = "confirmed" THEN row.blockHash ELSE NoBlock
    BY <1>2
  <2>. DEFINE r == [k EXCEPT !.at = "read", !.previousBlock = b]
  <2>2. /\ r \in Call /\ r.at = "read" /\ r.hash = k.hash /\ r.seen = k.seen
        /\ r.previousBlock = b
    BY DEF Call, Steps
  <2>3. calls' = [calls EXCEPT ![c] = r]
    BY <1>1, <1>4, <2>1 DEF FindBlock
  <2>. HIDE DEF r
  <2>4. b # NoBlock => Holds(b, k.hash)
    BY <1>2, <2>1 DEF CallSound, ChainIInv, RowSound
  <2>5. CallSound(r, unshown)
    BY <1>2, <2>2, <2>4 DEF CallSound
  <2>. QED
    BY <1>2, <1>2a, <2>2, <2>3, <2>5, CallMoves
<1>. QED
  BY <1>3, <1>4

\* A source answers or fails to.
LEMMA SeenMoves ==
  ASSUME ChainIInv, NEW c \in Calls, NEW s \in Sources, NEW o \in Observation,
         NEW hidden \in SUBSET Blocks, ObservationSound(o, calls[c].hash, hidden),
         calls' = [calls EXCEPT ![c].seen[s] = o], outages' \in 0..MaxOutages,
         unshown' = hidden, unshown \subseteq hidden,
         UNCHANGED <<row, canonical, mined, standing>>
  PROVE  ChainIInv'
<1>1. PICK k \in Call : k = calls[c]
  BY Typed DEF ChainIInv
<1>2. CallSound(k, unshown) /\ k.seen \in [Sources -> Observation]
  BY <1>1 DEF ChainIInv, Call
<1>3. PICK seen : seen = [k.seen EXCEPT ![s] = o]
  OBVIOUS
<1>4. seen \in [Sources -> Observation]
  BY <1>2, <1>3
<1>. DEFINE r == [k EXCEPT !.seen = seen]
<1>5. /\ r \in Call /\ r.at = k.at /\ r.hash = k.hash /\ r.seen = seen
      /\ r.previousBlock = k.previousBlock
  BY <1>4 DEF Call
<1>6. calls' = [calls EXCEPT ![c] = r]
  BY <1>1, <1>3
<1>. HIDE DEF r
<1>7. \A x \in Sources : ObservationSound(seen[x], k.hash, hidden)
  <2>. TAKE x \in Sources
  <2>1. seen[x] = IF x = s THEN o ELSE k.seen[x]
    BY <1>2, <1>3
  <2>2. ObservationSound(k.seen[x], k.hash, unshown)
    BY <1>2 DEF CallSound
  <2>3. ObservationSound(k.seen[x], k.hash, hidden)
    BY <2>2 DEF ObservationSound
  <2>. QED
    BY <1>1, <2>1, <2>3
<1>8. CallSound(r, hidden)
  BY <1>2, <1>5, <1>7 DEF CallSound
<1>. QED
  BY <1>5, <1>6, <1>8, CallMoves

LEMMA SourceKeeps ==
  ASSUME ChainIInv, NEW c \in Calls, NEW s \in Sources,
         ReadReceipt(c, s) \/ Outage(c, s) \/ \E lags \in BOOLEAN : ReadCanonical(c, s, lags)
  PROVE  ChainIInv'
<1>1. PICK h : h = calls[c].hash
  OBVIOUS
<1>2. /\ mined \in [Blocks -> Holding] /\ canonical \in Blocks \cup {NoBlock}
      /\ outages \in 0..MaxOutages /\ MaxOutages \in Nat /\ calls \in [Calls -> Call]
      /\ NoBlock \notin Blocks /\ MinConfirmations \in Nat \ {0}
  BY Typed, VerificationConstants DEF ChainIInv
<1>3. /\ Silent \in Observation /\ Silent.block = NoBlock /\ Silent.read = "complete"
      /\ ObservationSound(Silent, h, unshown)
  BY DEF Silent, Unread, Observation, ObservationSound
<1>4. UNCHANGED <<row, canonical, mined, standing>> /\ unshown \in SUBSET Blocks
  BY Typed DEF ChainIInv, ReadReceipt, ReadCanonical, Outage
<1>5. CASE Outage(c, s)
  <2>1. outages' \in 0..MaxOutages /\ calls' = [calls EXCEPT ![c].seen[s] = Silent] /\ unshown' = unshown
    BY <1>2, <1>5 DEF Outage
  <2>. QED
    BY <1>1, <1>3, <1>4, <2>1, SeenMoves
<1>6. CASE ReadReceipt(c, s)
  <2>1. CASE ~(canonical # NoBlock /\ mined[canonical].hash = calls[c].hash)
    <3>1. outages' = outages /\ calls' = [calls EXCEPT ![c].seen[s] = Silent] /\ unshown' = unshown
      BY <1>6, <2>1 DEF ReadReceipt
    <3>. QED
      BY <1>1, <1>2, <1>3, <1>4, <3>1, SeenMoves
  <2>2. CASE canonical # NoBlock /\ mined[canonical].hash = calls[c].hash
    <3>1. PICK o : o = [read |-> "receipt", block |-> canonical, canonical |-> FALSE,
                        deep |-> Deep(mined[canonical].depth), ok |-> mined[canonical].ok, logs |-> s = "rpc"]
      OBVIOUS
    <3>2. outages' = outages /\ calls' = [calls EXCEPT ![c].seen[s] = o] /\ unshown' = unshown
      BY <1>6, <2>2, <3>1 DEF ReadReceipt, AsIntended
    <3>3. mined[canonical] \in Holding
      BY <1>2, <2>2
    <3>4. /\ o \in Observation /\ o.read = "receipt" /\ o.block = canonical
          /\ o.deep <=> Deep(mined[canonical].depth)
          /\ o.ok <=> mined[canonical].ok
      <4>1. PICK d \in BOOLEAN : d = Deep(mined[canonical].depth)
        <5>1. Deep(mined[canonical].depth) \in BOOLEAN
          BY DEF Deep
        <5>. QED
          BY <5>1
      <4>2. PICK x \in BOOLEAN : x = mined[canonical].ok
        BY <3>3 DEF Holding
      <4>3. PICK l \in BOOLEAN : l = (s = "rpc")
        OBVIOUS
      <4>4. o = [read |-> "receipt", block |-> canonical, canonical |-> FALSE,
                 deep |-> d, ok |-> x, logs |-> l]
        BY <3>1, <4>1, <4>2, <4>3
      <4>5. /\ o.read = "receipt" /\ o.block = canonical /\ o.deep = d /\ o.ok = x
            /\ o \in Observation
        BY <1>2, <4>4 DEF Observation
      <4>. QED
        BY <4>1, <4>2, <4>5
    <3>5. mined[canonical].depth > 0
      BY <1>2, <2>2 DEF ChainIInv, OnChain
    <3>6. ObservationSound(o, h, unshown)
      BY <1>1, <1>2, <2>2, <3>4, <3>5 DEF ObservationSound, Holds, Deep
    <3>. QED
      BY <1>1, <1>2, <1>4, <3>2, <3>4, <3>6, SeenMoves
  <2>. QED
    BY <2>1, <2>2
<1>7. ASSUME NEW lags \in BOOLEAN, ReadCanonical(c, s, lags)
      PROVE  ChainIInv'
  <2>1. PICK seen \in Observation : seen = calls[c].seen[s]
    BY <1>2 DEF Call
  <2>2. seen.read = "receipt" /\ ObservationSound(seen, h, unshown)
    BY <1>1, <1>7, <2>1 DEF ReadCanonical, ChainIInv, CallSound
  <2>3. PICK b \in Blocks : b = seen.block
    BY <2>2 DEF ObservationSound, Observation
  <2>4. PICK d \in BOOLEAN : d = IF s = "blockscout" /\ canonical = b
                                 THEN Deep(mined[canonical].depth) ELSE seen.deep
    <3>1. seen.deep \in BOOLEAN /\ Deep(mined[canonical].depth) \in BOOLEAN
      BY DEF Observation, Deep
    <3>. QED
      BY <3>1
  <2>5. PICK still \in BOOLEAN, l \in BOOLEAN :
           still = (canonical = b) /\ l = (s = "rpc" \/ (still /\ ~lags)) /\ (still /\ ~l => lags)
    OBVIOUS
  <2>. DEFINE o == [seen EXCEPT !.read = "complete", !.canonical = still, !.logs = l, !.deep = d]
  <2>6. calls' = [calls EXCEPT ![c].seen[s] = o]
    BY <1>7, <2>1, <2>3, <2>4, <2>5 DEF ReadCanonical
  <2>7. /\ o \in Observation /\ o.read = "complete" /\ o.block = b /\ o.ok = seen.ok
        /\ o.canonical = still /\ o.deep = d /\ o.logs = l
    BY <2>3 DEF Observation
  <2>. HIDE DEF o
  <2>8. d => mined[b].depth >= MinConfirmations
    BY <1>2, <2>2, <2>3, <2>4 DEF ObservationSound, Deep
  <2>9. outages' \in 0..MaxOutages
    <3>1. CASE lags
      <4>1. outages' = outages + 1 /\ outages < MaxOutages
        BY <1>7, <3>1 DEF ReadCanonical
      <4>. QED
        BY <1>2, <4>1
    <3>2. CASE ~lags
      <4>1. outages' = outages
        BY <1>7, <3>2 DEF ReadCanonical
      <4>. QED
        BY <1>2, <4>1
    <3>. QED
      BY <3>1, <3>2
  <2>10. PICK hidden \in SUBSET Blocks : unshown' = hidden /\ unshown \subseteq hidden /\ (lags => b \in hidden)
    <3>1. CASE lags
      <4>1. unshown' = unshown \cup {b}
        BY <1>7, <2>1, <2>3, <3>1 DEF ReadCanonical
      <4>. QED
        BY <1>4, <3>1, <4>1
    <3>2. CASE ~lags
      <4>1. unshown' = unshown
        BY <1>7, <3>2 DEF ReadCanonical
      <4>. QED
        BY <1>4, <3>2, <4>1
    <3>. QED
      BY <3>1, <3>2
  <2>11. ObservationSound(o, h, hidden)
    BY <1>2, <2>2, <2>3, <2>5, <2>7, <2>8, <2>10 DEF ObservationSound
  <2>. QED
    BY <1>1, <1>4, <2>6, <2>7, <2>9, <2>10, <2>11, SeenMoves
<1>. QED
  BY <1>5, <1>6, <1>7

LEMMA AbandonKeeps ==
  ASSUME ChainIInv, NEW c \in Calls, Abandon(c)
  PROVE  ChainIInv'
<1>1. /\ calls' = [calls EXCEPT ![c] = IdleCall] /\ outages' = outages + 1
      /\ outages < MaxOutages /\ UNCHANGED <<row, canonical, mined, standing, unshown>>
  BY DEF Abandon
<1>2. outages' \in 0..MaxOutages
  BY <1>1, Typed, VerificationConstants DEF ChainIInv
<1>3. PICK hidden \in SUBSET Blocks : hidden = unshown /\ unshown' = hidden /\ unshown \subseteq hidden
  BY <1>1, Typed DEF ChainIInv
<1>4. IdleCall \in Call /\ CallSound(IdleCall, hidden)
  BY <1>3, FreshCall
<1>. QED
  BY <1>1, <1>2, <1>3, <1>4, CallMoves

\* What the two sources said when they agree, and what of it the verdict depends on.
LEMMA Agreed ==
  ASSUME ChainIInv, NEW c \in Calls, calls[c].at = "read", SourcesAgree(c)
  PROVE  \E b \in Blocks, rpc \in Observation, scout \in Observation :
           /\ rpc = calls[c].seen["rpc"] /\ scout = calls[c].seen["blockscout"]
           /\ rpc.block = b /\ scout.block = b
           /\ Holds(b, row.txHash) /\ calls[c].hash = row.txHash /\ row.txHash \in Hashes
           /\ (rpc.ok <=> mined[b].ok) /\ (scout.ok <=> mined[b].ok)
           /\ rpc.deep => mined[b].depth >= MinConfirmations
           /\ rpc.read = "complete" /\ ~rpc.canonical => canonical # b
           /\ scout.read = "complete" /\ ~scout.canonical => canonical # b
           /\ rpc.read = "complete" /\ rpc.canonical /\ ~rpc.logs => b \in unshown
           /\ scout.read = "complete" /\ scout.canonical /\ ~scout.logs => b \in unshown
<1>1. PICK k \in Call : k = calls[c]
  BY Typed DEF ChainIInv
<1>2. CallSound(k, unshown) /\ "rpc" \in Sources /\ "blockscout" \in Sources
  BY <1>1 DEF ChainIInv, Sources
<1>3. PICK rpc \in Observation, scout \in Observation :
           rpc = k.seen["rpc"] /\ scout = k.seen["blockscout"]
  BY <1>2 DEF Call
<1>4. rpc.block # NoBlock /\ scout.block = rpc.block /\ rpc.block \in Blocks
  BY <1>1, <1>2, <1>3 DEF SourcesAgree, Observation
<1>5. ObservationSound(rpc, k.hash, unshown) /\ ObservationSound(scout, k.hash, unshown)
  BY <1>2, <1>3 DEF CallSound
<1>6. k.hash = row.txHash /\ row.txHash \in Hashes
  BY <1>1, <1>2 DEF CallSound
<1>7. PICK b \in Blocks : b = rpc.block
  BY <1>4
<1>. QED
  BY <1>1, <1>3, <1>4, <1>5, <1>6, <1>7, SMTT(30) DEF ObservationSound

\* The verdict is of the chain, whatever moved since it was read.
LEMMA VerdictSound ==
  ASSUME ChainIInv, NEW c \in Calls, calls[c].at = "read",
         \A s \in Sources : calls[c].seen[s].read = "complete"
  PROVE  /\ Verdict(c) \in {"verifying", "reorged", "failed", "confirmed"}
         /\ Observed(c) \in Blocks \cup {NoBlock}
         /\ Observed(c) # NoBlock => Holds(Observed(c), row.txHash)
         /\ Verdict(c) = "confirmed" =>
              /\ Observed(c) # NoBlock /\ mined[Observed(c)].ok
              /\ mined[Observed(c)].depth >= MinConfirmations
         /\ Verdict(c) = "failed" => \E b \in Blocks : Holds(b, row.txHash) /\ WrongOrUnshown(b)
         /\ Verdict(c) = "reorged" => \E b \in Blocks \ {canonical} : Holds(b, row.txHash)
<1>1. CASE ~SourcesAgree(c)
  BY <1>1 DEF Verdict, Observed
<1>2. CASE SourcesAgree(c)
  <2>1. PICK b \in Blocks, rpc \in Observation, scout \in Observation :
           /\ rpc = calls[c].seen["rpc"] /\ scout = calls[c].seen["blockscout"]
           /\ rpc.block = b /\ scout.block = b
           /\ Holds(b, row.txHash) /\ calls[c].hash = row.txHash /\ row.txHash \in Hashes
           /\ (rpc.ok <=> mined[b].ok) /\ (scout.ok <=> mined[b].ok)
           /\ rpc.deep => mined[b].depth >= MinConfirmations
           /\ rpc.read = "complete" /\ ~rpc.canonical => canonical # b
           /\ scout.read = "complete" /\ ~scout.canonical => canonical # b
           /\ rpc.read = "complete" /\ rpc.canonical /\ ~rpc.logs => b \in unshown
           /\ scout.read = "complete" /\ scout.canonical /\ ~scout.logs => b \in unshown
    BY <1>2, Agreed
  <2>2. rpc.read = "complete" /\ scout.read = "complete" /\ NoBlock \notin Blocks
    BY <2>1, VerificationConstants DEF Sources
  <2>3. CASE ReorgSeen(c)
    <3>1. Verdict(c) = "reorged" /\ Observed(c) = NoBlock
      BY <1>2, <2>3 DEF Verdict, Observed
    <3>2. CASE \E s \in Sources : ~calls[c].seen[s].canonical
      <4>1. ~rpc.canonical \/ ~scout.canonical
        BY <2>1, <3>2 DEF Sources
      <4>2. b \in Blocks \ {canonical}
        BY <2>1, <2>2, <4>1
      <4>. QED
        BY <2>1, <3>1, <4>2
    <3>3. CASE ~\E s \in Sources : ~calls[c].seen[s].canonical
      <4>1. PICK p : p = calls[c].previousBlock
        OBVIOUS
      <4>2. p \notin {NoBlock, b}
        BY <2>1, <2>3, <3>3, <4>1 DEF ReorgSeen
      <4>3. p \in Blocks /\ Holds(p, row.txHash)
        BY <2>1, <4>1, <4>2, Typed DEF ChainIInv, CallSound, Call
      <4>4. b \in Blocks \ {canonical} \/ p \in Blocks \ {canonical}
        BY <4>2, <4>3
      <4>. QED
        BY <2>1, <3>1, <4>3, <4>4
    <3>. QED
      BY <3>2, <3>3
  <2>4. CASE ~ReorgSeen(c) /\ ~ShownRight(c)
    <3>1. Verdict(c) = "failed" /\ Observed(c) = NoBlock
      BY <1>2, <2>4 DEF Verdict, Observed
    <3>2. rpc.canonical /\ scout.canonical
      BY <2>1, <2>4 DEF ReorgSeen, Sources
    <3>3. ~rpc.logs \/ ~rpc.ok \/ ~scout.logs \/ ~scout.ok
      BY <2>1, <2>4 DEF ShownRight, Sources
    <3>4. WrongOrUnshown(b)
      BY <2>1, <2>2, <3>2, <3>3 DEF WrongOrUnshown
    <3>. QED
      BY <2>1, <3>1, <3>4
  <2>5. CASE ~ReorgSeen(c) /\ ShownRight(c)
    <3>1. /\ Verdict(c) = IF \A s \in Sources : calls[c].seen[s].deep THEN "confirmed"
                         ELSE "verifying"
          /\ Observed(c) = b
      BY <1>2, <2>1, <2>5 DEF Verdict, Observed
    <3>2. Verdict(c) = "confirmed" => rpc.deep
      BY <2>1, <3>1 DEF Sources
    <3>3. rpc.ok
      BY <2>1, <2>5 DEF ShownRight, Sources
    <3>. QED
      BY <2>1, <2>2, <3>1, <3>2, <3>3
  <2>. QED
    BY <2>3, <2>4, <2>5
<1>. QED
  BY <1>1, <1>2

LEMMA SaveKeeps ==
  ASSUME ChainIInv, NEW c \in Calls, Save(c)
  PROVE  ChainIInv'
<1>1. /\ ChainTypeOK /\ calls \in [Calls -> Call] /\ NoHash \notin Hashes
      /\ row \in [txHash : Hashes \cup {NoHash}, status : Statuses,
                  blockHash : Blocks \cup {NoBlock}]
      /\ standing \in Blocks \cup {NoBlock}
  BY Typed, VerificationConstants DEF ChainIInv
<1>2. PICK verdict, seen : verdict = Verdict(c) /\ seen = Observed(c)
  OBVIOUS
<1>3. /\ calls[c].at = "read" /\ \A s \in Sources : calls[c].seen[s].read = "complete"
      /\ calls' = [calls EXCEPT ![c] = IdleCall] /\ UNCHANGED <<canonical, mined, outages, unshown>>
  BY DEF Save
<1>4. /\ verdict \in {"verifying", "reorged", "failed", "confirmed"}
      /\ seen \in Blocks \cup {NoBlock}
      /\ seen # NoBlock => Holds(seen, row.txHash)
      /\ verdict = "confirmed" => /\ seen # NoBlock /\ mined[seen].ok
                                  /\ mined[seen].depth >= MinConfirmations
      /\ verdict = "failed" => \E b \in Blocks : Holds(b, row.txHash) /\ WrongOrUnshown(b)
  BY <1>2, <1>3, VerdictSound
<1>5. calls[c].hash = row.txHash /\ row.txHash \in Hashes
  BY <1>3 DEF ChainIInv, CallSound
<1>6. PICK block : block = IF seen # NoBlock THEN seen ELSE row.blockHash
  OBVIOUS
<1>7. \/ row' = row
      \/ row' = [txHash |-> row.txHash, status |-> verdict, blockHash |-> block]
  BY <1>2, <1>5, <1>6 DEF Save
<1>8. /\ row'.txHash = row.txHash
      /\ row' \in [txHash : Hashes \cup {NoHash}, status : Statuses,
                   blockHash : Blocks \cup {NoBlock}]
  BY <1>1, <1>4, <1>6, <1>7 DEF Statuses
<1>9. standing' \in {standing, seen, NoBlock}
  BY <1>2 DEF Save
<1>10. calls' \in [Calls -> Call]
  BY <1>1, <1>3, FreshCall
<1>11. ChainTypeOK'
  BY <1>1, <1>3, <1>4, <1>8, <1>9, <1>10 DEF ChainTypeOK, Call, Observation
<1>12. RowSound'
  <2>1. CASE row' = row
    BY <1>3, <2>1 DEF ChainIInv, RowSound, Holds, WrongOrUnshown
  <2>2. CASE row' = [txHash |-> row.txHash, status |-> verdict, blockHash |-> block]
    <3>1. row'.status = verdict /\ row'.blockHash = block
      BY <2>2
    <3>2. block # NoBlock => Holds(block, row.txHash)
      BY <1>4, <1>6 DEF ChainIInv, RowSound
    <3>. QED
      BY <1>1, <1>3, <1>4, <1>5, <1>6, <1>8, <3>1, <3>2 DEF RowSound, Holds, WrongOrUnshown
  <2>. QED
    BY <1>7, <2>1, <2>2
<1>13. ASSUME NEW d \in Calls PROVE CallSound(calls[d], unshown)'
  <2>1. PICK e : e = calls'[d]
    OBVIOUS
  <2>2. CallSound(e, unshown)
    BY <1>1, <1>3, <2>1, FreshCall DEF ChainIInv
  <2>3. CallSound(e, unshown)'
    BY <1>3, <1>8, <2>2 DEF CallSound, ObservationSound, Holds
  <2>. QED
    BY <2>1, <2>3
<1>. QED
  BY <1>3, <1>11, <1>12, <1>13 DEF ChainIInv, OnChain

LEMMA NextChainIInv ==
  ASSUME ChainIInv, [Next]_vars
  PROVE  ChainIInv'
<1>1. CASE UNCHANGED vars
  <2>1. UNCHANGED <<row, mined, canonical, standing, calls, outages, unshown>>
    BY <1>1 DEF vars
  <2>2. ChainTypeOK'
    BY <2>1 DEF ChainIInv, ChainTypeOK
  <2>3. RowSound' /\ OnChain'
    BY <2>1 DEF ChainIInv, RowSound, OnChain, Holds, WrongOrUnshown
  <2>4. ASSUME NEW c \in Calls PROVE CallSound(calls[c], unshown)'
    <3>1. CallSound(calls[c], unshown)
      BY DEF ChainIInv
    <3>. QED
      BY <2>1, <3>1 DEF CallSound, ObservationSound, Holds
  <2>. QED
    BY <2>2, <2>3, <2>4 DEF ChainIInv
<1>2. CASE Next
  BY <1>2, ChainStepKeeps, SubmitKeeps, FindKeeps, SourceKeeps, AbandonKeeps, SaveKeeps
     DEF Next, CallStep
<1>. QED
  BY <1>1, <1>2

LEMMA ChainIInvSuffices ==
  ASSUME ChainIInv
  PROVE  VerdictWasTrue
<1>1. row.blockHash \in Blocks \cup {NoBlock} /\ ChainTypeOK
  BY Typed DEF ChainIInv
<1>. QED
  BY <1>1 DEF ChainIInv, VerdictWasTrue, RowSound, CallSound, Holds, WrongOrUnshown

\* A verdict replaces a confirmation only if it says reorged, and then a block that is not
\* on the chain held the transaction.
LEMMA ConfirmationStep ==
  ASSUME ChainIInv, [Next]_vars, row.status = "confirmed",
         row'.status \notin {"confirmed", "submitted"}
  PROVE  /\ row'.status = "reorged"
         /\ \E b \in Blocks \ {canonical} : mined[b].depth > 0 /\ mined[b].hash = row.txHash
<1>1. PICK c \in Calls : Save(c)
  <2>1. row \in [txHash : Hashes \cup {NoHash}, status : Statuses,
                 blockHash : Blocks \cup {NoBlock}]
    BY Typed DEF ChainIInv
  <2>2. row' # row
    OBVIOUS
  <2>3. \A c \in Calls, h \in Hashes : ~Submit(c, h)
    BY <2>1 DEF Submit
  <2>. QED
    BY <2>2, <2>3 DEF Next, vars, Mine, Extend, Reorganize, CallStep, FindStatus, FindBlock,
                      ReadReceipt, ReadCanonical, Abandon, Outage
<1>2. PICK verdict : verdict = Verdict(c)
  OBVIOUS
<1>3. verdict = "reorged" /\ row'.status = verdict
  BY <1>1, <1>2 DEF Save, MaySave
<1>4. \E b \in Blocks \ {canonical} : Holds(b, row.txHash)
  BY <1>1, <1>2, <1>3, VerdictSound DEF Save
<1>. QED
  BY <1>3, <1>4 DEF Holds

LEMMA ChainInvariance == Spec => []ChainIInv
<1>1. Init /\ [][Next]_vars => []ChainIInv
  BY InitChainIInv, NextChainIInv, PTL
<1>. QED
  BY <1>1, PTL DEF Spec

\* Whatever calls, reorganizations and outages interleave, and however stale the reading
\* a verdict was made from: a row is confirmed only with a block that held its own
\* successful transaction deep enough, and failed only if one was mined that was wrong or
\* that a source once showed without its logs.
THEOREM VerdictsTrue == Spec => []VerdictWasTrue
BY ChainInvariance, ChainIInvSuffices, PTL

\* A confirmation ends by a submission or because its transaction was in a block that the
\* chain dropped.
THEOREM ConfirmationsStand == Spec => ConfirmationLostOnlyToReorg
<1>1. ChainIInv /\ [Next]_vars =>
        [row.status = "confirmed" /\ row'.status \notin {"confirmed", "submitted"} =>
          /\ row'.status = "reorged"
          /\ \E b \in Blocks \ {canonical} : mined[b].depth > 0 /\ mined[b].hash = row.txHash]_vars
  BY ConfirmationStep
<1>2. Init /\ [][Next]_vars => ConfirmationLostOnlyToReorg
  BY <1>1, InitChainIInv, NextChainIInv, PTL DEF ConfirmationLostOnlyToReorg
<1>. QED
  BY <1>2, PTL DEF Spec
=============================================================================
