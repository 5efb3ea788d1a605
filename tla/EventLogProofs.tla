--------------------------- MODULE EventLogProofs ---------------------------
(* The event log for any depth, any number of ledgers, faults and retries:   *)
(* whatever the listener takes for a reorganisation, and wherever it fails   *)
(* or is restarted, the cursor stays within what is saved, and as long as no *)
(* call was cut off between rows and cursor nothing is saved twice.          *)
EXTENDS EventLog, WellFoundedInduction, TLAPS

-----------------------------------------------------------------------------
(* Numbers.                                                                  *)

LEMMA Ledgers ==
    /\ Depth \in Nat /\ MaxLedger \in Nat /\ MaxFaults \in Nat
    /\ MaxRetries \in Nat /\ MaxRetries > 0
    /\ First \in Nat /\ First >= 2 /\ First - 1 \in Nat /\ First - 1 <= MaxLedger
    /\ \A i \in Ledger : i \in Nat /\ i >= First /\ i <= MaxLedger
    /\ \A i \in Nat : i >= First /\ i <= MaxLedger => i \in Ledger
  BY EventLogConstants DEF First, Ledger

\* A set of ledgers has a newest one, and Max names it.
LEMMA Newest ==
    ASSUME NEW S \in SUBSET Ledger, S # {}
    PROVE  Max(S) \in S /\ \A i \in S : i <= Max(S)
  <1> DEFINE T == {MaxLedger - i : i \in S}
  <1>1. \A i \in S : i \in Nat /\ MaxLedger - i \in Nat
    BY Ledgers
  <1>2. T \subseteq Nat /\ T # {}
    BY <1>1
  <1>3. PICK m \in T : \A k \in T : <<k, m>> \notin OpToRel(<, Nat)
    BY <1>2, WFMin, NatLessThanWellFounded, Zenon
  <1>4. \A k \in T : ~(k < m)
    BY <1>2, <1>3, Zenon DEF OpToRel
  <1>5. PICK x \in S : m = MaxLedger - x
    BY <1>3
  <1>6. \A y \in S : x >= y
    <2>1. \A y \in S : ~(MaxLedger - y < MaxLedger - x)
      BY <1>4, <1>5
    <2> QED
      BY <1>1, <2>1, Ledgers
  <1>7. \E z \in S : \A y \in S : z >= y
    BY <1>6
  <1>8. Max(S) \in S /\ \A y \in S : Max(S) >= y
    BY <1>7 DEF Max
  <1> QED
    BY <1>1, <1>8


LEMMA MaxOfOne ==
    ASSUME NEW c \in Int
    PROVE  Max({c}) = c
  BY DEF Max

LEMMA LastLedgerIs ==
    ASSUME cursor \subseteq Int, \A c, d \in cursor : c = d
    PROVE  /\ LastLedger \in Int
           /\ cursor = {} => LastLedger = 0
           /\ \A c \in cursor : LastLedger = c /\ cursor = {c}
  <1>1. CASE cursor = {}
    BY <1>1 DEF LastLedger
  <1>2. ASSUME NEW c \in cursor PROVE LastLedger = c /\ cursor = {c}
    <2>1. cursor = {c} /\ c \in Int
      OBVIOUS
    <2> QED
      BY <2>1, MaxOfOne DEF LastLedger
  <1> QED
    BY <1>1, <1>2

-----------------------------------------------------------------------------
(* The invariant.                                                            *)

\* Nothing the listener remembers lies beyond the chain, a rollback goes back, and
\* a retry is left unless the listener has given up.
Bounds ==
    /\ LastLedger <= height /\ last <= height /\ safe <= height
    /\ pc \in {"selecting", "deleting", "resetting"} => safe < last
    /\ pc # "failed" => retries < MaxRetries

\* What was fetched lies behind last and skips no event; once saved, it is in rows.
Fetching ==
    /\ pc \in {"saving", "advancing"} =>
           /\ batch # {}
           /\ \A i \in batch :
                  /\ last < i /\ i <= height
                  /\ \A j \in Ledger :
                         last < j /\ j <= i /\ content[j] = "event" => j \in batch
    /\ pc = "advancing" => Processed \subseteq rows

\* The listener has this ledger behind it, in the table or in memory.  Between
\* the rollback and the read of the cursor the memory is ahead of the table.
Behind(i) == i <= LastLedger \/ (pc # "reading" /\ i <= last)

Kept ==
    \A i \in Ledger :
        /\ content[i] = "event" /\ Behind(i)
        /\ pc = "resetting" => i < safe
        => i \in rows \cup lost

\* Unless rows and cursor were torn apart: memory and table agree, and no row
\* lies beyond the cursor, but those just inserted or about to be rolled back to.
Together ==
    ~torn =>
        /\ pc # "reading" => last = LastLedger
        /\ \A i \in rows : /\ i <= LastLedger \/ (pc = "advancing" /\ i \in batch)
                           /\ pc = "resetting" => i < safe

Inv == TypeOK /\ Bounds /\ Fetching /\ Kept /\ Together

LEMMA InvTypes ==
    ASSUME Inv
    PROVE  /\ LastLedger \in Int /\ (cursor = {} => LastLedger = 0)
           /\ \A c \in cursor : LastLedger = c /\ cursor = {c}
           /\ height \in Nat /\ height >= First - 1 /\ height <= MaxLedger
           /\ last \in Int /\ safe \in Int /\ retries \in Nat /\ faults \in Nat
           /\ batch \subseteq Ledger /\ rest \subseteq Ledger
           /\ rows \subseteq Ledger /\ lost \subseteq Ledger
           /\ \A i \in rows : content[i] = "event" /\ i <= height
           /\ torn \in BOOLEAN
  <1>1. TypeOK
    BY DEF Inv
  <1>2. /\ LastLedger \in Int /\ (cursor = {} => LastLedger = 0)
        /\ \A c \in cursor : LastLedger = c /\ cursor = {c}
    BY <1>1, LastLedgerIs DEF TypeOK
  <1>3. height \in Nat /\ height >= First - 1 /\ height <= MaxLedger
    BY <1>1, Ledgers DEF TypeOK
  <1>4. \A i \in rows : i \in Ledger /\ content[i] = "event" /\ i <= height
    BY <1>1, <1>3, Ledgers DEF TypeOK
  <1> QED
    BY <1>1, <1>2, <1>3, <1>4, Ledgers DEF TypeOK

LEMMA InitInv == Init => Inv
  <1> SUFFICES ASSUME Init PROVE Inv
    OBVIOUS
  <1>1. TypeOK
    <2>1. height \in First - 1..MaxLedger /\ 0 \in 0..MaxRetries /\ 0 \in 0..MaxFaults
      BY Ledgers DEF Init
    <2>2. content \in [Ledger -> Kind] /\ \A i \in Ledger : content[i] = "none"
      BY DEF Init, Kind
    <2>3. torn \in BOOLEAN
      BY DEF Init
    <2>4. rows \subseteq {i \in Ledger : content[i] = "event"} /\ lost \subseteq Ledger
      BY DEF Init
    <2> QED
      BY <2>1, <2>2, <2>3, <2>4 DEF Init, TypeOK
  <1>2. LastLedger = 0
    BY DEF Init, LastLedger
  <1>3. Bounds
    BY <1>2, Ledgers DEF Init, Bounds
  <1>4. Fetching /\ Together /\ Kept
    BY <1>2, Ledgers DEF Init, Fetching, Together, Kept, Behind
  <1> QED
    BY <1>1, <1>3, <1>4 DEF Inv

-----------------------------------------------------------------------------
(* The steps.                                                                *)

LEMMA FaultTypes ==
    ASSUME TypeOK, Fault \/ Fine
    PROVE  faults' \in 0..MaxFaults
  BY Ledgers DEF TypeOK, Fault, Fine

LEMMA CloseInv ==
    ASSUME Inv, Close
    PROVE  Inv'
  <1>1. /\ height < MaxLedger /\ height' = height + 1
        /\ UNCHANGED <<rows, cursor, last, safe, batch, rest, retries, pc, faults, lost, torn>>
    BY DEF Close, table, memory
  <1>2. PICK kind \in Kind : content' = [content EXCEPT ![height + 1] = kind]
    BY DEF Close
  <1>3. TypeOK /\ Bounds /\ Fetching /\ Kept /\ Together
    BY DEF Inv
  <1>4. height + 1 \in Ledger /\ height' \in First - 1..MaxLedger
    BY <1>1, InvTypes, Ledgers
  <1>5. /\ content' \in [Ledger -> Kind] /\ content'[height + 1] = kind
        /\ \A i \in Ledger : i # height + 1 => content'[i] = content[i]
    BY <1>2, <1>3, <1>4 DEF TypeOK
  <1>6. \A i \in Ledger : i <= height => content'[i] = content[i]
    BY <1>5, InvTypes, Ledgers
  <1>7. LastLedger' = LastLedger
    BY <1>1 DEF LastLedger
  <1>8. TypeOK'
    <2>1. \A i \in Ledger : i > height' => content'[i] = "none"
      BY <1>1, <1>3, <1>5, InvTypes, Ledgers DEF TypeOK
    <2>2. rows' \subseteq {i \in Ledger : content'[i] = "event"}
      BY <1>1, <1>6, InvTypes
    <2> QED
      BY <1>1, <1>3, <1>4, <1>5, <2>1, <2>2 DEF TypeOK
  <1>9. Bounds'
    BY <1>1, <1>3, <1>7, InvTypes DEF Bounds
  <1>10. Fetching'
    <2>1. ASSUME NEW i \in batch, pc \in {"saving", "advancing"}
          PROVE  /\ last < i /\ i <= height + 1
                 /\ \A j \in Ledger :
                        last < j /\ j <= i /\ content'[j] = "event" => j \in batch
      <3>1. last < i /\ i <= height /\ i \in Nat
        BY <1>3, <2>1, InvTypes, Ledgers DEF Fetching
      <3>2. ASSUME NEW j \in Ledger, last < j, j <= i, content'[j] = "event"
            PROVE  j \in batch
        <4>1. j <= height /\ content[j] = "event"
          BY <1>6, <3>1, <3>2, InvTypes, Ledgers
        <4> QED
          BY <1>3, <2>1, <3>2, <4>1 DEF Fetching
      <3> QED
        BY <3>1, <3>2, InvTypes
    <2>2. pc = "advancing" => Processed' \subseteq rows
      <3>1. ASSUME pc = "advancing" PROVE Processed' = Processed
        <4>1. \A i \in batch : i \in Ledger /\ i <= height
          BY <1>3, <3>1, InvTypes DEF Fetching
        <4> QED
          BY <1>1, <1>6, <4>1 DEF Processed
      <3> QED
        BY <1>3, <3>1 DEF Fetching
    <2> QED
      BY <1>1, <1>3, <2>1, <2>2 DEF Fetching
  <1>11. Kept'
    <2> SUFFICES ASSUME NEW i \in Ledger, content'[i] = "event", Behind(i)',
                        pc' = "resetting" => i < safe'
                 PROVE  i \in rows' \cup lost'
      BY DEF Kept
    <2>1. Behind(i)
      BY <1>1, <1>7 DEF Behind
    <2>2. i <= height
      BY <1>3, <2>1, InvTypes, Ledgers DEF Behind, Bounds
    <2> QED
      BY <1>1, <1>3, <1>6, <2>1, <2>2 DEF Kept
  <1>12. Together'
    BY <1>1, <1>3, <1>7 DEF Together
  <1> QED
    BY <1>8, <1>9, <1>10, <1>11, <1>12 DEF Inv

\* A step of the listener that leaves chain and table alone.
Reads == UNCHANGED <<height, content, rows, cursor, lost>>

LEMMA ReadsKeep ==
    ASSUME Reads
    PROVE  /\ LastLedger' = LastLedger
           /\ batch' = batch /\ rest' = rest => Processed' = Processed
  BY DEF Reads, LastLedger, Processed

LEMMA PollInv ==
    ASSUME Inv, Poll
    PROVE  Inv'
  <1>1. TypeOK /\ Bounds /\ Fetching /\ Kept /\ Together
    BY DEF Inv
  <1>2. Reads /\ pc = "idle" /\ last' = last /\ torn' = torn /\ (Fault \/ Fine)
    BY DEF Poll, Reads, chain, table, Answer
  <1>3. /\ safe' \in Int /\ safe' <= height
        /\ pc' = "selecting" => safe' < last
        /\ \/ /\ pc' \in {"selecting", "fetching"} /\ UNCHANGED <<batch, rest, retries>>
           \/ PollFails
    <2>1. ASSUME NEW v \in {0} \cup (First - 1..height),
                 IF v < last THEN pc' = "selecting" /\ safe' = v - Depth
                             ELSE pc' = "fetching" /\ UNCHANGED safe
          PROVE  /\ safe' \in Int /\ safe' <= height /\ pc' \in {"selecting", "fetching"}
                 /\ pc' = "selecting" => safe' < last
      <3>1. v \in Nat /\ v <= height
        BY InvTypes, Ledgers
      <3> QED
        BY <1>1, <2>1, <3>1, InvTypes, Ledgers DEF Bounds
    <2>2. ASSUME UNCHANGED safe PROVE safe' \in Int /\ safe' <= height
      BY <1>1, <2>2, InvTypes DEF Bounds
    <2>3. PollFails => pc' # "selecting"
      BY DEF PollFails
    <2> QED
      BY <2>1, <2>2, <2>3 DEF Poll
  <1>4. /\ pc' \in {"selecting", "fetching", "idle", "failed"}
        /\ batch' \subseteq Ledger /\ rest' \subseteq Ledger /\ retries' \in 0..MaxRetries
        /\ pc' # "failed" => retries' < MaxRetries
    BY <1>1, <1>2, <1>3, InvTypes, Ledgers DEF PollFails, Bounds, TypeOK
  <1>5. TypeOK'
    BY <1>1, <1>2, <1>3, <1>4, FaultTypes DEF TypeOK, Reads
  <1>6. Bounds'
    BY <1>1, <1>2, <1>3, <1>4, ReadsKeep DEF Bounds, Reads
  <1>7. Fetching'
    BY <1>4 DEF Fetching
  <1>8. Kept'
    BY <1>1, <1>2, <1>4, ReadsKeep DEF Kept, Behind, Reads
  <1>9. Together'
    BY <1>1, <1>2, <1>4, ReadsKeep DEF Together, Reads
  <1> QED
    BY <1>5, <1>6, <1>7, <1>8, <1>9 DEF Inv

LEMMA SelectInv ==
    ASSUME Inv, Select
    PROVE  Inv'
  <1>1. TypeOK /\ Bounds /\ Fetching /\ Kept /\ Together
    BY DEF Inv
  <1>2. /\ Reads /\ pc = "selecting" /\ pc' \in {"reading", "deleting"} /\ (Fault \/ Fine)
        /\ UNCHANGED <<last, safe, batch, rest, retries, torn>>
    BY DEF Select, Reads, chain, table, memory
  <1>3. TypeOK'
    BY <1>1, <1>2, FaultTypes DEF TypeOK, Reads
  <1>4. Bounds' /\ Fetching' /\ Together'
    BY <1>1, <1>2, ReadsKeep DEF Bounds, Fetching, Together, Reads
  <1>5. Kept'
    BY <1>1, <1>2, ReadsKeep DEF Kept, Behind, Reads
  <1> QED
    BY <1>3, <1>4, <1>5 DEF Inv

LEMMA DeleteInv ==
    ASSUME Inv, Delete
    PROVE  Inv'
  <1>1. TypeOK /\ Bounds /\ Fetching /\ Kept /\ Together
    BY DEF Inv
  <1>2. /\ pc = "deleting" /\ pc' = "resetting" /\ (Fault \/ Fine)
        /\ UNCHANGED <<height, content, cursor, last, safe, batch, rest, retries, lost>>
        /\ \/ rows' = {i \in rows : i < safe} /\ torn' = torn
           \/ rows' = rows /\ torn' = TRUE
    <2>1. rows \ Undone = {i \in rows : i < safe}
      BY InvTypes, Ledgers DEF Undone
    <2> QED
      BY <2>1 DEF Delete, chain, memory
  <1>3. LastLedger' = LastLedger
    BY <1>2 DEF LastLedger
  <1>4. TypeOK'
    <2>1. rows' \subseteq {i \in Ledger : content'[i] = "event"} /\ torn' \in BOOLEAN
      BY <1>1, <1>2 DEF TypeOK
    <2> QED
      BY <1>1, <1>2, <2>1, FaultTypes DEF TypeOK
  <1>5. Bounds' /\ Fetching'
    BY <1>1, <1>2, <1>3 DEF Bounds, Fetching
  <1>6. Kept'
    <2> SUFFICES ASSUME NEW i \in Ledger, content[i] = "event", Behind(i), i < safe
                 PROVE  i \in rows' \cup lost
      BY <1>2, <1>3 DEF Kept, Behind
    <2>1. i \in rows \cup lost
      BY <1>1, <1>2 DEF Kept
    <2> QED
      BY <1>2, <2>1
  <1>7. Together'
    BY <1>1, <1>2, <1>3 DEF Together
  <1> QED
    BY <1>4, <1>5, <1>6, <1>7 DEF Inv

\* What a rollback that is cut off before it moves the cursor has emptied.
LEMMA EmptiedKeeps ==
    ASSUME Inv, pc = "resetting", NEW i \in Ledger, content[i] = "event", i <= LastLedger
    PROVE  i \in rows \cup lost \cup Emptied
  <1>1. CASE i < safe
    BY <1>1 DEF Inv, Kept, Behind
  <1>2. CASE safe <= i
    BY <1>2 DEF Emptied
  <1> QED
    BY <1>1, <1>2, InvTypes, Ledgers

LEMMA ResetInv ==
    ASSUME Inv, Reset
    PROVE  Inv'
  <1>1. TypeOK /\ Bounds /\ Fetching /\ Kept /\ Together
    BY DEF Inv
  <1>2. /\ pc = "resetting" /\ pc' = "reading" /\ (Fault \/ Fine)
        /\ UNCHANGED <<height, content, rows, last, safe, batch, rest, retries, torn>>
    BY DEF Reset, chain, memory
  <1>3. CASE cursor' = {ResetTo : c \in cursor} /\ UNCHANGED lost
    <2>1. /\ cursor' \subseteq Int /\ \A c, d \in cursor' : c = d
          /\ \A c \in cursor' : c = safe - 1
          /\ cursor = {} <=> cursor' = {}
      BY <1>3, InvTypes DEF ResetTo
    <2>2. /\ LastLedger' \in Int /\ LastLedger' <= height
          /\ cursor = {} => LastLedger' = 0
          /\ cursor # {} => LastLedger' = safe - 1
      <3>1. /\ LastLedger' \in Int /\ (cursor' = {} => LastLedger' = 0)
            /\ \A c \in cursor' : LastLedger' = c
        <4>1. CASE cursor' = {}
          BY <4>1 DEF LastLedger
        <4>2. ASSUME NEW c \in cursor' PROVE LastLedger' = c
          <5>1. cursor' = {c} /\ c \in Int
            BY <2>1
          <5> QED
            BY <5>1, MaxOfOne DEF LastLedger
        <4> QED
          BY <2>1, <4>1, <4>2
      <3> QED
        BY <1>1, <2>1, <3>1, InvTypes DEF Bounds
    <2>3. TypeOK'
      BY <1>1, <1>2, <1>3, <2>1, FaultTypes DEF TypeOK
    <2>4. Bounds' /\ Fetching'
      BY <1>1, <1>2, <2>2 DEF Bounds, Fetching
    <2>5. Kept'
      <3> SUFFICES ASSUME NEW i \in Ledger, content[i] = "event", i <= LastLedger'
                   PROVE  i \in rows \cup lost
        BY <1>2, <1>3 DEF Kept, Behind
      <3>1. cursor # {} /\ i < safe
        BY <2>2, InvTypes, Ledgers
      <3>2. i <= last
        BY <1>1, <1>2, <3>1, InvTypes, Ledgers DEF Bounds
      <3> QED
        BY <1>1, <1>2, <3>1, <3>2 DEF Kept, Behind
    <2>6. Together'
      <3> SUFFICES ASSUME ~torn, NEW i \in rows PROVE i <= LastLedger'
        BY <1>2 DEF Together
      <3>1. i < safe /\ i <= LastLedger
        BY <1>1, <1>2 DEF Together
      <3> QED
        BY <2>2, <3>1, InvTypes, Ledgers
    <2> QED
      BY <2>3, <2>4, <2>5, <2>6 DEF Inv
  <1>4. CASE lost' = lost \cup Emptied /\ UNCHANGED cursor
    <2>1. LastLedger' = LastLedger
      BY <1>4 DEF LastLedger
    <2>2. TypeOK'
      BY <1>1, <1>2, <1>4, FaultTypes DEF TypeOK, Emptied
    <2>3. Bounds' /\ Fetching'
      BY <1>1, <1>2, <2>1 DEF Bounds, Fetching
    <2>4. Kept'
      BY <1>2, <1>4, <2>1, EmptiedKeeps DEF Kept, Behind
    <2>5. Together'
      BY <1>1, <1>2, <2>1 DEF Together
    <2> QED
      BY <2>2, <2>3, <2>4, <2>5 DEF Inv
  <1> QED
    BY <1>3, <1>4 DEF Reset

LEMMA ReadCursorInv ==
    ASSUME Inv, ReadCursor
    PROVE  Inv'
  <1>1. TypeOK /\ Bounds /\ Fetching /\ Kept /\ Together
    BY DEF Inv
  <1>2. /\ Reads /\ pc = "reading" /\ pc' = "fetching" /\ (Fault \/ Fine)
        /\ UNCHANGED <<safe, batch, rest, retries>>
        /\ \/ last' = LastLedger /\ torn' = torn
           \/ last' = 0 /\ torn' = TRUE
    BY DEF ReadCursor, Reads, chain, table
  <1>3. TypeOK'
    <2>1. last' \in Int
      BY <1>2, InvTypes
    <2>2. torn' \in BOOLEAN
      BY <1>1, <1>2, Zenon DEF TypeOK
    <2> QED
      BY <1>1, <1>2, <2>1, <2>2, FaultTypes DEF TypeOK, Reads
  <1>4. Bounds' /\ Fetching'
    BY <1>1, <1>2, ReadsKeep, InvTypes DEF Bounds, Fetching, Reads
  <1>5. Kept'
    <2> SUFFICES ASSUME NEW i \in Ledger, content[i] = "event", i <= LastLedger \/ i <= last'
                 PROVE  i \in rows \cup lost
      BY <1>2, ReadsKeep DEF Kept, Behind, Reads
    <2>1. i <= LastLedger
      BY <1>2, InvTypes, Ledgers
    <2> QED
      BY <1>1, <1>2, <2>1 DEF Kept, Behind
  <1>6. Together'
    BY <1>1, <1>2, ReadsKeep DEF Together, Reads
  <1> QED
    BY <1>3, <1>4, <1>5, <1>6 DEF Inv

\* What a fetch returns lies behind last and leaves no event out.
LEMMA FetchedIs ==
    ASSUME Inv, NEW w \in First - 1..height, NEW part
    PROVE  /\ Fetched(w, part) \subseteq Ledger
           /\ \A i \in Fetched(w, part) :
                  /\ last < i /\ i <= height
                  /\ \A j \in Ledger :
                         last < j /\ j <= i /\ content[j] = "event" => j \in Fetched(w, part)
  <1>1. Fetched(w, part) \subseteq Sent(last + 1, w)
    BY DEF Fetched
  <1>2. Fetched(w, part) = {} \/ Fetched(w, part) = Sent(last + 1, w)
    BY DEF Fetched
  <1>3. w \in Int /\ w <= height /\ last \in Int
    BY InvTypes, Ledgers
  <1>4. ASSUME NEW i \in Sent(last + 1, w)
        PROVE  /\ i \in Ledger /\ last < i /\ i <= height
               /\ \A j \in Ledger :
                      last < j /\ j <= i /\ content[j] = "event" => j \in Sent(last + 1, w)
    BY <1>3, InvTypes, Ledgers DEF Sent
  <1> QED
    BY <1>1, <1>2, <1>4

LEMMA FetchInv ==
    ASSUME Inv, Fetch
    PROVE  Inv'
  <1>1. TypeOK /\ Bounds /\ Fetching /\ Kept /\ Together
    BY DEF Inv
  <1>2. /\ Reads /\ pc = "fetching" /\ (Fault \/ Fine)
        /\ UNCHANGED <<last, safe, torn>>
    BY DEF Fetch, Reads, chain, table
  <1>3. \/ PollDone
        \/ PollFails
        \/ /\ pc' \in {"saving", "advancing"} /\ UNCHANGED retries
           /\ batch' # {} /\ batch' \subseteq Ledger /\ rest' \subseteq Ledger
           /\ \A i \in batch' :
                  /\ last < i /\ i <= height
                  /\ \A j \in Ledger :
                         last < j /\ j <= i /\ content[j] = "event" => j \in batch'
           /\ pc' = "advancing" => \A i \in batch' \ rest' : content[i] # "event"
    <2>1. \A from, w : Sent(from, w) \subseteq Ledger
      BY DEF Sent
    <2> QED
      BY <2>1, FetchedIs DEF Fetch
  <1>4. /\ pc' \in {"saving", "advancing", "idle", "failed"}
        /\ batch' \subseteq Ledger /\ rest' \subseteq Ledger /\ retries' \in 0..MaxRetries
        /\ pc' # "failed" => retries' < MaxRetries
    BY <1>1, <1>2, <1>3, InvTypes, Ledgers DEF PollFails, PollDone, Bounds, TypeOK
  <1>5. TypeOK'
    BY <1>1, <1>2, <1>4, FaultTypes DEF TypeOK, Reads
  <1>6. Bounds'
    BY <1>1, <1>2, <1>4, ReadsKeep DEF Bounds, Reads
  <1>7. Fetching'
    <2>1. pc' \in {"saving", "advancing"} =>
              ~PollDone /\ ~PollFails
      BY DEF PollDone, PollFails
    <2>2. Processed' = {i \in batch' \ rest' : content[i] = "event"}
      BY <1>2 DEF Processed, Reads
    <2>3. pc' = "advancing" => Processed' = {}
      BY <1>3, <2>1, <2>2
    <2> QED
      BY <1>2, <1>3, <2>1, <2>3 DEF Fetching, Reads
  <1>8. Kept'
    BY <1>1, <1>2, <1>4, ReadsKeep DEF Kept, Behind, Reads
  <1>9. Together'
    BY <1>1, <1>2, <1>4, ReadsKeep DEF Together, Reads
  <1> QED
    BY <1>5, <1>6, <1>7, <1>8, <1>9 DEF Inv

LEMMA SaveInv ==
    ASSUME Inv, Save
    PROVE  Inv'
  <1>1. TypeOK /\ Bounds /\ Fetching /\ Kept /\ Together
    BY DEF Inv
  <1>2. /\ pc = "saving" /\ (Fault \/ Fine)
        /\ UNCHANGED <<height, content, cursor, last, safe>>
        /\ \/ pc' = "advancing" /\ UNCHANGED <<retries, batch, rest>>
           \/ PollFails
        /\ \/ UNCHANGED <<rows, lost, torn>>
           \/ /\ rows' = rows \cup Processed /\ lost' = lost \ Processed
              /\ \/ torn' = torn /\ pc' = "advancing"
                 \/ torn' = TRUE
        /\ pc' = "advancing" => rows' = rows \cup Processed
    BY DEF Save, chain, PollFails
  <1>3. /\ pc' \in {"advancing", "idle", "failed"}
        /\ batch' \subseteq Ledger /\ rest' \subseteq Ledger /\ retries' \in 0..MaxRetries
        /\ pc' # "failed" => retries' < MaxRetries
        /\ pc' = "advancing" => batch' = batch /\ rest' = rest
    BY <1>1, <1>2, InvTypes, Ledgers DEF PollFails, Bounds, TypeOK
  <1>4. /\ rows \subseteq rows' /\ rows' \subseteq rows \cup Processed
        /\ rows \cup lost \subseteq rows' \cup lost' /\ lost' \subseteq lost
    BY <1>2
  <1>5. Processed \subseteq batch /\ \A i \in Processed : content[i] = "event"
    BY DEF Processed
  <1>6. LastLedger' = LastLedger
    BY <1>2 DEF LastLedger
  <1>7. TypeOK'
    <2>1. rows' \subseteq {i \in Ledger : content'[i] = "event"}
      BY <1>1, <1>2, <1>4, <1>5 DEF TypeOK
    <2>2. torn' \in BOOLEAN
      BY <1>1, <1>2, Zenon DEF TypeOK
    <2>3. lost' \subseteq Ledger
      BY <1>1, <1>4 DEF TypeOK
    <2> QED
      BY <1>1, <1>2, <1>3, <2>1, <2>2, <2>3, FaultTypes DEF TypeOK
  <1>8. Bounds'
    BY <1>1, <1>2, <1>3, <1>6 DEF Bounds
  <1>9. Fetching'
    <2>1. pc' = "advancing" => Processed' = Processed
      BY <1>2, <1>3 DEF Processed
    <2> QED
      BY <1>1, <1>2, <1>3, <2>1 DEF Fetching
  <1>10. Kept'
    <2> SUFFICES ASSUME NEW i \in Ledger, content[i] = "event", Behind(i)
                 PROVE  i \in rows' \cup lost'
      BY <1>2, <1>6 DEF Kept, Behind
    <2>1. i \in rows \cup lost
      BY <1>1, <1>2 DEF Kept
    <2> QED
      BY <1>4, <2>1
  <1>11. Together'
    <2> SUFFICES ASSUME ~torn'
                 PROVE  /\ last' = LastLedger'
                        /\ \A i \in rows' : i <= LastLedger' \/ (pc' = "advancing" /\ i \in batch')
      BY <1>3 DEF Together
    <2>1. ~torn
      BY <1>2
    <2>2. last' = LastLedger' /\ \A i \in rows : i <= LastLedger
      BY <1>1, <1>2, <1>6, <2>1 DEF Together
    <2>3. rows' = rows \/ pc' = "advancing"
      BY <1>2
    <2> QED
      BY <1>3, <1>4, <1>5, <1>6, <2>2, <2>3
  <1> QED
    BY <1>7, <1>8, <1>9, <1>10, <1>11 DEF Inv

LEMMA AdvanceInv ==
    ASSUME Inv, Advance
    PROVE  Inv'
  <1>1. TypeOK /\ Bounds /\ Fetching /\ Kept /\ Together
    BY DEF Inv
  <1>2. /\ pc = "advancing" /\ (Fault \/ Fine) /\ PollDone
        /\ last' = Max(batch)
        /\ \/ cursor' = {Max(batch)} /\ torn' = torn
           \/ torn' = TRUE /\ UNCHANGED cursor
        /\ lost' = lost \cup rest
        /\ UNCHANGED <<height, content, rows, safe>>
    BY DEF Advance, chain
  <1>3. pc' = "idle" /\ retries' = 0 /\ batch' = {} /\ rest' = {}
    BY <1>2 DEF PollDone
  <1>4. /\ Max(batch) \in batch /\ \A i \in batch : i <= Max(batch)
        /\ Max(batch) \in Int
    BY <1>1, <1>2, Newest, InvTypes, Ledgers DEF Fetching
  <1>5. last < Max(batch) /\ Max(batch) <= height
    BY <1>1, <1>2, <1>4 DEF Fetching
  <1>6. \/ LastLedger' = Max(batch)
        \/ LastLedger' = LastLedger /\ cursor' = cursor /\ torn' = TRUE
    BY <1>2, <1>4, MaxOfOne DEF LastLedger
  <1>7. TypeOK'
    <2>1. cursor' \subseteq Int /\ \A c, d \in cursor' : c = d
      BY <1>1, <1>2, <1>4 DEF TypeOK
    <2>2. torn' \in BOOLEAN
      BY <1>1, <1>2, Zenon DEF TypeOK
    <2>3. last' \in Int /\ 0 \in 0..MaxRetries /\ lost' \subseteq Ledger
      BY <1>2, <1>4, InvTypes, Ledgers
    <2> QED
      BY <1>1, <1>2, <1>3, <2>1, <2>2, <2>3, FaultTypes DEF TypeOK
  <1>8. Bounds' /\ Fetching'
    BY <1>1, <1>2, <1>3, <1>5, <1>6, Ledgers DEF Bounds, Fetching
  <1>9. Kept'
    <2> SUFFICES ASSUME NEW i \in Ledger, content[i] = "event",
                        i <= LastLedger \/ i <= Max(batch)
                 PROVE  i \in rows \cup lost \cup rest
      BY <1>2, <1>3, <1>6 DEF Kept, Behind
    <2>1. CASE i <= LastLedger \/ i <= last
      BY <1>1, <1>2, <2>1 DEF Kept, Behind
    <2>2. CASE last < i /\ i <= Max(batch)
      <3>1. i \in Processed \cup rest
        BY <1>1, <1>2, <1>4, <2>2 DEF Fetching, Processed
      <3> QED
        BY <1>1, <1>2, <3>1 DEF Fetching
    <2> QED
      BY <2>1, <2>2, InvTypes, Ledgers
  <1>10. Together'
    <2> SUFFICES ASSUME ~torn'
                 PROVE  /\ last' = LastLedger'
                        /\ \A i \in rows : i <= LastLedger'
      BY <1>2, <1>3 DEF Together
    <2>1. ~torn /\ LastLedger' = Max(batch)
      BY <1>2, <1>6
    <2>2. last = LastLedger /\ \A i \in rows : i <= LastLedger \/ i \in batch
      BY <1>1, <1>2, <2>1 DEF Together
    <2>3. \A i \in rows : i <= Max(batch)
      BY <1>4, <1>5, <2>2, InvTypes, Ledgers
    <2> QED
      BY <1>2, <2>1, <2>3
  <1> QED
    BY <1>7, <1>8, <1>9, <1>10 DEF Inv

LEMMA RestartInv ==
    ASSUME Inv, Restart
    PROVE  Inv'
  <1>1. TypeOK /\ Bounds /\ Fetching /\ Kept /\ Together
    BY DEF Inv
  <1>2. /\ Fault /\ last' \in {LastLedger, 0}
        /\ safe' = 0 /\ batch' = {} /\ rest' = {} /\ retries' = 0 /\ pc' = "idle"
        /\ lost' = IF pc = "resetting" THEN lost \cup Emptied ELSE lost
        /\ torn' = (torn \/ pc = "advancing" \/ last' # LastLedger)
        /\ UNCHANGED <<height, content, rows, cursor>>
    BY DEF Restart, chain, table
  <1>3. LastLedger' = LastLedger
    BY <1>2 DEF LastLedger
  <1>4. TypeOK'
    <2>1. last' \in Int /\ 0 \in 0..MaxRetries /\ 0 \in Int
      BY <1>2, InvTypes, Ledgers
    <2>2. torn' \in BOOLEAN
      BY <1>2, Zenon
    <2>3. lost' \subseteq Ledger
      BY <1>1, <1>2 DEF TypeOK, Emptied
    <2> QED
      BY <1>1, <1>2, <2>1, <2>2, <2>3, FaultTypes DEF TypeOK
  <1>5. Bounds' /\ Fetching'
    BY <1>1, <1>2, <1>3, InvTypes, Ledgers DEF Bounds, Fetching
  <1>6. Kept'
    <2> SUFFICES ASSUME NEW i \in Ledger, content[i] = "event",
                        i <= LastLedger \/ i <= last'
                 PROVE  i \in rows \cup lost'
      BY <1>2, <1>3 DEF Kept, Behind
    <2>1. i <= LastLedger
      BY <1>2, InvTypes, Ledgers
    <2>2. CASE pc = "resetting"
      BY <1>2, <2>1, <2>2, EmptiedKeeps
    <2>3. CASE pc # "resetting"
      BY <1>1, <1>2, <2>1, <2>3 DEF Kept, Behind
    <2> QED
      BY <2>2, <2>3
  <1>7. Together'
    BY <1>1, <1>2, <1>3 DEF Together
  <1> QED
    BY <1>4, <1>5, <1>6, <1>7 DEF Inv

LEMMA NextInv == Inv /\ [Next]_vars => Inv'
  <1> SUFFICES ASSUME Inv, [Next]_vars PROVE Inv'
    OBVIOUS
  <1>1. CASE UNCHANGED vars
    BY <1>1 DEF vars, chain, table, memory, Inv, TypeOK, Bounds, Fetching, Kept, Behind,
                Together, LastLedger, Processed
  <1>2. CASE Listen
    BY <1>2, PollInv, FetchInv, SaveInv, AdvanceInv, SelectInv, DeleteInv, ResetInv,
       ReadCursorInv DEF Listen
  <1> QED
    BY <1>1, <1>2, CloseInv, RestartInv DEF Next

-----------------------------------------------------------------------------
(* The theorems.                                                             *)

\* The invariant above holds of every reachable state.
THEOREM Invariance == Spec => []Inv
  BY InitInv, NextInv, PTL DEF Spec

\* Every variable keeps its type: event_cursor never holds two rows, and only
\* events the listener handles are ever inserted.
THEOREM TypeCorrect == Spec => []TypeOK
  <1>1. Inv => TypeOK
    BY DEF Inv
  <1> QED
    BY <1>1, Invariance, PTL

\* The cursor never passes an event that is not saved, however lagging answers,
\* rollbacks, failed calls and restarts follow one another, unless a rollback
\* deleted the row and failed to move the cursor back, or an answer ended in the
\* middle of its ledger.
THEOREM CursorWithinLog == Spec => []NothingSkipped
  <1>1. Inv => NothingSkipped
    BY DEF Inv, Kept, Behind, NothingSkipped
  <1> QED
    BY <1>1, Invariance, PTL

\* As long as rows and cursor were always written together, the listener never
\* inserts an event that is already there.
THEOREM SavedOnce == Spec => []NothingRepeated
  <1>1. ASSUME Inv, pc = "saving", ~torn PROVE Processed \cap rows = {}
    <2>1. \A i \in rows : i <= last
      BY <1>1 DEF Inv, Together
    <2>2. \A i \in Processed : last < i /\ i \in Ledger
      BY <1>1, InvTypes DEF Inv, Fetching, Processed
    <2> QED
      BY <1>1, <2>1, <2>2, InvTypes, Ledgers
  <1>2. Inv => NothingRepeated
    BY <1>1 DEF NothingRepeated
  <1> QED
    BY <1>2, Invariance, PTL
=============================================================================
