-------------------------- MODULE ChannelBookProofs --------------------------
(* What the off-chain book promises, for any number of handlers, any amounts *)
(* and any number of overlaps.  Most of it holds only until two calls have   *)
(* overlapped; the invariant keeps the two kinds of fact apart.              *)
EXTENDS ChannelBook, TLAPS

-----------------------------------------------------------------------------
(* The invariant.                                                           *)

\* The calls of h that have still to write the state they computed.
Live(h) == {p \in doing[h] : p.op # "finalize"}

\* No call overstates the deposits, whatever happened since it read.
Covered ==
    /\ row.cs.total <= deposited
    /\ \A h \in Handler : \A p \in Live(h) : p.new.total <= deposited + p.added

\* Between the listing and the enqueue of a channel one enqueue is still allowed;
\* after it, none until the run ends, and none once the channel is not active.
Counted ==
    /\ Len(queue) <= 1 + failed
    /\ (\E d \in due : ~d.queued) \/ (due = {} /\ row.state = "active")
           => Len(queue) <= failed
    /\ \A p \in doing[Job] : p.op = "close"

\* While no call overlaps, the one that is to write has computed its state from
\* the row as it is.
Fits(p) ==
    /\ p.new.total = row.cs.total + p.added
    /\ p.new.user + p.new.exec = p.new.total
    /\ p.new.seq >= row.cs.seq /\ p.new.exec >= row.cs.exec
    /\ p.new.user # row.cs.user \/ p.new.exec # row.cs.exec => p.new.seq > row.cs.seq
    /\ p.op = "submit" => /\ row.state \in {"closing", "dispute"}
                          /\ p.new.user = row.cs.user /\ p.new.exec = row.cs.exec
    /\ p.op # "submit" => row.state = "active"

Alone ==
    /\ \A g, h \in Handler : Live(g) # {} /\ Live(h) # {} => g = h
    /\ row.cs.total = deposited /\ row.cs.user + row.cs.exec = deposited
    /\ \A h \in Handler : \A p \in Live(h) : Fits(p)
    /\ \A l \in listed : /\ l.cs.user = row.cs.user /\ l.cs.exec = row.cs.exec
                         /\ row.state # "active"
    /\ \A d \in due : d.amount <= row.cs.exec
    /\ \A i \in DOMAIN queue : queue[i] <= row.cs.exec

BInv == TypeOK /\ Covered /\ Counted /\ (~overlapped => Alone)

-----------------------------------------------------------------------------
(* What the steps have in common.                                           *)

LEMMA BookTypes ==
    ASSUME TypeOK
    PROVE  /\ row \in Row /\ row.cs \in ChannelState
           /\ row.state \in {"active", "closing", "dispute", "closed"}
           /\ row.cs.seq \in Nat /\ row.cs.user \in Nat /\ row.cs.exec \in Nat
           /\ row.cs.total \in Nat /\ row.cs.tower \in BOOLEAN
           /\ deposited \in Nat /\ failed \in Nat /\ Len(queue) \in Nat
  <1>1. row \in Row /\ deposited \in Nat /\ failed \in Nat /\ queue \in Seq(Nat)
    BY BookConstants DEF TypeOK
  <1>2. row.cs \in ChannelState /\ row.state \in {"active", "closing", "dispute", "closed"}
    BY <1>1 DEF Row
  <1> QED
    BY <1>1, <1>2 DEF ChannelState

LEMMA CallTypes ==
    ASSUME TypeOK, NEW h \in Handler, NEW p \in doing[h]
    PROVE  /\ p \in [op : Op, new : ChannelState, added : Nat]
           /\ p.op \in Op /\ p.new \in ChannelState /\ p.added \in Nat
           /\ p.new.seq \in Nat /\ p.new.user \in Nat /\ p.new.exec \in Nat
           /\ p.new.total \in Nat
  <1>1. p \in [op : Op, new : ChannelState, added : Nat]
    BY DEF TypeOK
  <1>2. p.op \in Op /\ p.new \in ChannelState /\ p.added \in Nat
    BY <1>1
  <1> QED
    BY <1>1, <1>2 DEF ChannelState

\* What the calls make of a channel state, field by field.
LEMMA StateFacts ==
    ASSUME NEW cs \in ChannelState, NEW n \in Nat
    PROVE  /\ cs.user >= n =>
                  /\ Renewed(cs, n) \in ChannelState
                  /\ Renewed(cs, n).seq = cs.seq + 1 /\ Renewed(cs, n).user = cs.user - n
                  /\ Renewed(cs, n).exec = cs.exec + n /\ Renewed(cs, n).total = cs.total
           /\ ToppedUp(cs, n) \in ChannelState
           /\ ToppedUp(cs, n).seq = cs.seq + 1 /\ ToppedUp(cs, n).user = cs.user + n
           /\ ToppedUp(cs, n).exec = cs.exec /\ ToppedUp(cs, n).total = cs.total + n
  <1>1. cs.seq \in Nat /\ cs.user \in Nat /\ cs.exec \in Nat /\ cs.total \in Nat
    BY DEF ChannelState
  <1>2. ASSUME cs.user >= n
        PROVE  /\ Renewed(cs, n) \in ChannelState
               /\ Renewed(cs, n).seq = cs.seq + 1 /\ Renewed(cs, n).user = cs.user - n
               /\ Renewed(cs, n).exec = cs.exec + n /\ Renewed(cs, n).total = cs.total
    <2>1. PICK a \in Nat, b \in Nat, d \in Nat :
              a = cs.seq + 1 /\ b = cs.user - n /\ d = cs.exec + n
      BY <1>1, <1>2
    <2>2. Renewed(cs, n) = [cs EXCEPT !.seq = a, !.user = b, !.exec = d]
      BY <2>1 DEF Renewed
    <2> QED
      BY <2>1, <2>2 DEF ChannelState
  <1>3. /\ ToppedUp(cs, n) \in ChannelState
        /\ ToppedUp(cs, n).seq = cs.seq + 1 /\ ToppedUp(cs, n).user = cs.user + n
        /\ ToppedUp(cs, n).exec = cs.exec /\ ToppedUp(cs, n).total = cs.total + n
    <2>1. PICK a \in Nat, b \in Nat, t \in Nat :
              a = cs.seq + 1 /\ b = cs.user + n /\ t = cs.total + n
      BY <1>1
    <2>2. ToppedUp(cs, n) = [cs EXCEPT !.seq = a, !.user = b, !.total = t]
      BY <2>1 DEF ToppedUp
    <2> QED
      BY <2>1, <2>2 DEF ChannelState
  <1> QED
    BY <1>2, <1>3

LEMMA HandlerFacts == Job \in Handler /\ \A h \in Request : h \in Handler /\ h # Job
  BY BookConstants DEF Handler

LEMMA InitBInv == Init => BInv
  <1> SUFFICES ASSUME Init PROVE BInv
    OBVIOUS
  <1>1. /\ row.state = "active" /\ row \in Row
        /\ row.cs.user = Deposit /\ row.cs.exec = 0 /\ row.cs.total = Deposit
        /\ Deposit \in Nat
    BY BookConstants DEF Init, Row, ChannelState
  <1>2. /\ \A h \in Handler : doing[h] = {}
        /\ listed = {} /\ due = {} /\ queue = << >> /\ failed = 0 /\ ~overlapped
        /\ deposited = Deposit
    BY DEF Init
  <1>3. doing \in [Handler -> SUBSET [op : Op, new : ChannelState, added : Nat]]
    BY DEF Init
  <1>4. TypeOK
    <2>1. queue \in Seq(Nat) /\ failed \in 0..MaxFailed
      BY <1>2, BookConstants
    <2>3. overlapped \in BOOLEAN
      BY DEF Init
    <2>2. listed \in SUBSET Row /\ due \in SUBSET [amount : Nat, queued : BOOLEAN]
      BY <1>2
    <2> QED
      BY <1>1, <1>2, <1>3, <2>1, <2>2, <2>3 DEF TypeOK
  <1>5. \A h \in Handler : Live(h) = {}
    BY <1>2 DEF Live
  <1>6. Covered
    BY <1>1, <1>2, <1>5 DEF Covered
  <1>7. Counted
    BY <1>2, HandlerFacts DEF Counted
  <1>8. Alone
    BY <1>1, <1>2, <1>5 DEF Alone
  <1> QED
    BY <1>4, <1>6, <1>7, <1>8 DEF BInv

\* A call that starts: it computes from the row, and from nothing else unless
\* another is under way.
LEMMA ReadStep ==
    ASSUME BInv, NEW h \in Handler, NEW op \in Op, op # "finalize", h = Job => op = "close",
           NEW new \in ChannelState, new.total >= row.cs.total, Read(h, op, new),
           ~overlapped => Fits([op |-> op, new |-> new, added |-> new.total - row.cs.total]),
           UNCHANGED <<row, due, deposited, queue, failed>>, listed' \subseteq listed
    PROVE  BInv'
  <1>1. TypeOK
    BY DEF BInv
  <1>2. /\ row.cs.total \in Nat /\ deposited \in Nat /\ new.total \in Nat
    BY <1>1, BookTypes DEF ChannelState
  <1>3. PICK call \in [op : Op, new : ChannelState, added : Nat] :
            call = [op |-> op, new |-> new, added |-> new.total - row.cs.total]
    BY <1>2
  <1>4. call.op = op /\ call.new = new /\ call.added = new.total - row.cs.total
    BY <1>3
  <1>5. ~overlapped => Fits(call)
    BY <1>3
  <1>6. doing' = [doing EXCEPT ![h] = {call}] /\ overlapped' = (overlapped \/ Pending(h) # {})
    BY <1>3 DEF Read, Meet
  <1>7. /\ doing'[h] = {call} /\ \A g \in Handler : g # h => doing'[g] = doing[g]
        /\ doing' \in [Handler -> SUBSET [op : Op, new : ChannelState, added : Nat]]
    BY <1>1, <1>3, <1>6 DEF TypeOK
  <1>8. TypeOK'
    <2>1. overlapped' \in BOOLEAN
      BY <1>6
    <2>2. listed' \in SUBSET Row
      BY <1>1 DEF TypeOK
    <2> QED
      BY <1>1, <1>7, <2>1, <2>2 DEF TypeOK
  <1>9. Live(h)' = {call} /\ \A g \in Handler : g # h => Live(g)' = Live(g)
    BY <1>4, <1>7 DEF Live
  <1>10. Covered'
    <2>1. Covered
      BY DEF BInv
    <2>2. call.new.total <= deposited + call.added
      BY <1>2, <1>4, <2>1 DEF Covered
    <2> QED
      BY <1>9, <2>1, <2>2 DEF Covered
  <1>11. Counted'
    <2>1. \A p \in doing'[Job] : p.op = "close"
      BY <1>4, <1>7, HandlerFacts DEF BInv, Counted
    <2> QED
      BY <2>1 DEF BInv, Counted
  <1>12. ASSUME ~overlapped' PROVE Alone'
    <2>1. ~overlapped /\ Pending(h) = {} /\ Alone
      BY <1>6, <1>12 DEF BInv
    <2>2. \A g \in Handler : g # h => Live(g)' = {}
      BY <1>9, <2>1 DEF Pending, Live
    <2>3. Fits(call)'
      BY <1>5, <2>1 DEF Fits
    <2> QED
      BY <1>9, <2>1, <2>2, <2>3 DEF Alone
  <1> QED
    BY <1>8, <1>10, <1>11, <1>12 DEF BInv

LEMMA NextStates ==
    ASSUME NEW op \in Op
    PROVE  /\ op \in {"close", "expire"} => NextStateOf(op) = "closing"
           /\ op \in {"dispute", "submit"} => NextStateOf(op) = "dispute"
           /\ op \in {"renew", "topUp", "register", "deregister"} => NextStateOf(op) = row.state
           /\ NextStateOf(op) \in {row.state, "closing", "dispute"}
                \/ op = "finalize"
  <1>1. CASE op \in {"close", "expire"}
    BY <1>1 DEF NextStateOf
  <1>2. CASE op \in {"dispute", "submit"}
    BY <1>2 DEF NextStateOf
  <1>3. CASE op \in {"renew", "topUp", "register", "deregister", "finalize"}
    BY <1>3 DEF NextStateOf
  <1> QED
    BY <1>1, <1>2, <1>3 DEF Op

\* What a call computes from the row fits the row, whichever call it is.
LEMMA BeginStep ==
    ASSUME BInv, NEW h \in Request, Begin(h)
    PROVE  BInv'
  <1>1. TypeOK /\ h \in Handler /\ h # Job
        /\ UNCHANGED <<row, due, deposited, queue, failed>> /\ listed' \subseteq listed
    BY HandlerFacts DEF BInv, Begin
  <1>2. /\ row.cs \in ChannelState /\ row.cs.seq \in Nat /\ row.cs.user \in Nat
        /\ row.cs.exec \in Nat /\ row.cs.total \in Nat /\ row.cs.tower \in BOOLEAN
        /\ deposited \in Nat
    BY <1>1, BookTypes
  <1>3. ~overlapped => row.cs.user + row.cs.exec = row.cs.total
    BY DEF BInv, Alone
  <1>4. ASSUME NEW op \in Op, op \notin {"finalize", "submit"}, row.state = "active",
               NEW new \in ChannelState, new.total >= row.cs.total, Read(h, op, new),
               new.user + new.exec - new.total = row.cs.user + row.cs.exec - row.cs.total,
               new.seq >= row.cs.seq, new.exec >= row.cs.exec,
               new.user # row.cs.user \/ new.exec # row.cs.exec => new.seq > row.cs.seq
        PROVE  BInv'
    <2> DEFINE call == [op |-> op, new |-> new, added |-> new.total - row.cs.total]
    <2>1. call.op = op /\ call.new = new /\ call.added = new.total - row.cs.total
      OBVIOUS
    <2>2. new.total \in Nat /\ new.user \in Nat /\ new.exec \in Nat
      BY DEF ChannelState
    <2>3. ~overlapped => Fits(call)
      <3> HIDE DEF call
      <3>1. call.new.total = row.cs.total + call.added
        BY <1>2, <2>1, <2>2
      <3>2. ~overlapped => call.new.user + call.new.exec = call.new.total
        BY <1>2, <1>3, <1>4, <2>1, <2>2
      <3>3. /\ call.new.seq >= row.cs.seq /\ call.new.exec >= row.cs.exec
            /\ call.new.user # row.cs.user \/ call.new.exec # row.cs.exec
                   => call.new.seq > row.cs.seq
            /\ call.op # "submit" /\ row.state = "active"
        BY <1>4, <2>1
      <3> QED
        BY <3>1, <3>2, <3>3 DEF Fits
    <2> QED
      BY <1>1, <1>4, <2>3, ReadStep
  <1>5. ASSUME NEW op \in {"close", "dispute", "expire"}, Active(h, op, row.cs)
        PROVE  BInv'
    BY <1>2, <1>4, <1>5 DEF Active, Op
  <1>6. ASSUME NEW n \in Amount, row.cs.user >= n, Active(h, "renew", Renewed(row.cs, n))
        PROVE  BInv'
    <2> DEFINE new == Renewed(row.cs, n)
    <2>1. n \in Nat
      BY BookConstants
    <2>2. /\ new.seq = row.cs.seq + 1 /\ new.user = row.cs.user - n
          /\ new.exec = row.cs.exec + n /\ new.total = row.cs.total
          /\ new \in ChannelState
      BY <1>2, <1>6, <2>1, StateFacts
    <2>3. Read(h, "renew", new) /\ row.state = "active" /\ "renew" \in Op
      BY <1>6 DEF Active, Op
    <2> HIDE DEF new
    <2> QED
      BY <1>2, <1>4, <2>1, <2>2, <2>3
  <1>7. ASSUME NEW n \in Amount, Active(h, "topUp", ToppedUp(row.cs, n))
        PROVE  BInv'
    <2> DEFINE new == ToppedUp(row.cs, n)
    <2>1. n \in Nat
      BY BookConstants
    <2>2. /\ new.seq = row.cs.seq + 1 /\ new.user = row.cs.user + n
          /\ new.exec = row.cs.exec /\ new.total = row.cs.total + n
          /\ new \in ChannelState
      BY <1>2, <2>1, StateFacts
    <2>3. Read(h, "topUp", new) /\ row.state = "active" /\ "topUp" \in Op
      BY <1>7 DEF Active, Op
    <2> HIDE DEF new
    <2> QED
      BY <1>2, <1>4, <2>1, <2>2, <2>3
  <1>8. ASSUME NEW op \in {"register", "deregister"}, NEW tower \in BOOLEAN,
               Active(h, op, [row.cs EXCEPT !.tower = tower])
        PROVE  BInv'
    <2> DEFINE new == [row.cs EXCEPT !.tower = tower]
    <2>1. /\ new.seq = row.cs.seq /\ new.user = row.cs.user
          /\ new.exec = row.cs.exec /\ new.total = row.cs.total
          /\ new \in ChannelState
      BY <1>2 DEF ChannelState
    <2>2. Read(h, op, new) /\ row.state = "active" /\ op \in Op /\ op \notin {"finalize", "submit"}
      BY <1>8 DEF Active, Op
    <2> HIDE DEF new
    <2> QED
      BY <1>2, <1>4, <2>1, <2>2
  <1> QED
    BY <1>5, <1>6, <1>7, <1>8 DEF Begin

\* The sweep submits what it listed: the balances cannot have changed since,
\* unless calls overlapped.
LEMMA SweepStep ==
    ASSUME BInv, NEW h \in Request, Sweep(h)
    PROVE  BInv'
  <1>1. TypeOK /\ h \in Handler /\ h # Job /\ listed' = {}
        /\ UNCHANGED <<row, due, deposited, queue, failed>>
    BY HandlerFacts DEF BInv, Sweep
  <1>2. /\ row.cs \in ChannelState /\ row.cs.seq \in Nat /\ row.cs.user \in Nat
        /\ row.cs.exec \in Nat /\ row.cs.total \in Nat
    BY <1>1, BookTypes
  <1>3. PICK l \in listed :
           IF InWindow /\ row.cs.tower /\ l.cs.seq + 1 > row.cs.seq /\ l.cs.seq < MaxSeq
           THEN Read(h, "submit", [row.cs EXCEPT !.seq = l.cs.seq + 1,
                                       !.user = l.cs.user, !.exec = l.cs.exec])
           ELSE UNCHANGED <<doing, overlapped>>
    BY Zenon DEF Sweep
  <1>4. l.cs.seq \in Nat /\ l.cs.user \in Nat /\ l.cs.exec \in Nat
    <2>1. l \in Row
      BY <1>1 DEF TypeOK
    <2>2. l.cs \in ChannelState
      BY <2>1 DEF Row
    <2> QED
      BY <2>2 DEF ChannelState
  <1> DEFINE new == [row.cs EXCEPT !.seq = l.cs.seq + 1, !.user = l.cs.user, !.exec = l.cs.exec]
  <1>5. /\ new.seq = l.cs.seq + 1 /\ new.user = l.cs.user /\ new.exec = l.cs.exec
        /\ new.total = row.cs.total /\ new \in ChannelState
    <2>1. PICK a \in Nat, b \in Nat, d \in Nat :
              a = l.cs.seq + 1 /\ b = l.cs.user /\ d = l.cs.exec
      BY <1>4
    <2>2. PICK cs \in ChannelState : cs = row.cs
      BY <1>2
    <2>3. new = [cs EXCEPT !.seq = a, !.user = b, !.exec = d]
      BY <2>1, <2>2
    <2> HIDE DEF new
    <2> QED
      BY <2>1, <2>2, <2>3 DEF ChannelState
  <1> HIDE DEF new
  <1>6. CASE InWindow /\ l.cs.seq + 1 > row.cs.seq /\ Read(h, "submit", new)
    <2> DEFINE call == [op |-> "submit", new |-> new, added |-> new.total - row.cs.total]
    <2>1. call.op = "submit" /\ call.new = new /\ call.added = new.total - row.cs.total
      OBVIOUS
    <2>2. ~overlapped => Fits(call)
      <3>1. row.state \in {"closing", "dispute"}
        BY <1>6 DEF InWindow
      <3>2. ~overlapped => /\ l.cs.user = row.cs.user /\ l.cs.exec = row.cs.exec
                           /\ row.cs.user + row.cs.exec = row.cs.total
        BY DEF BInv, Alone
      <3> HIDE DEF call
      <3> QED
        BY <1>2, <1>4, <1>5, <1>6, <2>1, <3>1, <3>2 DEF Fits
    <2>3. new.total >= row.cs.total /\ "submit" \in Op
      BY <1>2, <1>5 DEF Op
    <2> QED
      BY <1>1, <1>5, <1>6, <2>2, <2>3, ReadStep
  <1>7. CASE UNCHANGED <<doing, overlapped>>
    <2>1. TypeOK'
      BY <1>1, <1>7 DEF TypeOK
    <2>2. \A g \in Handler : Live(g)' = Live(g)
      BY <1>7 DEF Live
    <2>3. Covered'
      BY <1>1, <2>2 DEF BInv, Covered
    <2>4. Counted'
      BY <1>1, <1>7 DEF BInv, Counted
    <2>5. ~overlapped' => Alone'
      BY <1>1, <1>7, <2>2 DEF BInv, Alone, Fits
    <2> QED
      BY <2>1, <2>3, <2>4, <2>5 DEF BInv
  <1> QED
    BY <1>3, <1>6, <1>7 DEF new

LEMMA WriteStep ==
    ASSUME BInv, NEW h \in Handler, Write(h)
    PROVE  BInv'
  <1>1. TypeOK /\ Covered /\ Counted
    BY DEF BInv
  <1>2. PICK p \in doing[h] :
          /\ p.op # "finalize"
          /\ row' = [state |-> NextStateOf(p.op), cs |-> p.new]
          /\ deposited' = deposited + p.added
          /\ doing' = [doing EXCEPT ![h] =
                 IF p.op = "expire" THEN {[p EXCEPT !.op = "finalize", !.new = row.cs]} ELSE {}]
    BY DEF Write
  <1>3. /\ due' = (IF h = Job THEN {} ELSE due)
        /\ UNCHANGED <<listed, queue, failed, overlapped>>
    BY DEF Write
  <1>4. /\ row.cs \in ChannelState /\ row.cs.total \in Nat /\ row.cs.exec \in Nat
        /\ row.cs.user \in Nat /\ deposited \in Nat
        /\ row.state \in {"active", "closing", "dispute", "closed"}
    BY <1>1, BookTypes
  <1>5. /\ p \in [op : Op, new : ChannelState, added : Nat]
        /\ p.op \in Op /\ p.new \in ChannelState /\ p.added \in Nat
        /\ p.new.user \in Nat /\ p.new.exec \in Nat /\ p.new.total \in Nat
        /\ p \in Live(h)
    BY <1>1, <1>2, CallTypes DEF Live
  <1>6. /\ row'.cs = p.new /\ row'.state = NextStateOf(p.op)
        /\ row'.state \in {row.state, "closing", "dispute"}
    BY <1>2, <1>5, NextStates
  <1>7. /\ \A q \in doing'[h] : q.op = "finalize" /\ p.op = "expire"
        /\ \A g \in Handler : g # h => doing'[g] = doing[g]
        /\ doing' \in [Handler -> SUBSET [op : Op, new : ChannelState, added : Nat]]
    <2> DEFINE rest == IF p.op = "expire" THEN {[p EXCEPT !.op = "finalize", !.new = row.cs]}
                                          ELSE {}
    <2>1. /\ rest \in SUBSET [op : Op, new : ChannelState, added : Nat]
          /\ \A q \in rest : q.op = "finalize" /\ p.op = "expire"
      BY <1>4, <1>5 DEF Op
    <2>2. doing' = [doing EXCEPT ![h] = rest]
      BY <1>2
    <2>3. doing \in [Handler -> SUBSET [op : Op, new : ChannelState, added : Nat]]
      BY <1>1 DEF TypeOK
    <2> HIDE DEF rest
    <2> QED
      BY <2>1, <2>2, <2>3
  <1>8. TypeOK'
    <2>1. row' \in Row
      BY <1>2, <1>4, <1>5, <1>6 DEF Row
    <2>2. deposited' \in Nat /\ due' \in SUBSET [amount : Nat, queued : BOOLEAN]
      BY <1>1, <1>2, <1>3, <1>4, <1>5 DEF TypeOK
    <2> QED
      BY <1>1, <1>3, <1>7, <2>1, <2>2 DEF TypeOK
  <1>9. Live(h)' = {} /\ \A g \in Handler : g # h => Live(g)' = Live(g)
    BY <1>7 DEF Live
  <1>10. Covered'
    <2>1. p.new.total <= deposited + p.added
      BY <1>1, <1>5 DEF Covered
    <2>2. ASSUME NEW g \in Handler, NEW q \in Live(g)' PROVE q.new.total <= deposited' + q.added
      <3>1. g # h /\ q \in Live(g) /\ q \in doing[g]
        BY <1>9, <2>2 DEF Live
      <3>2. q.new.total \in Nat /\ q.added \in Nat
        BY <1>1, <3>1, CallTypes
      <3>3. q.new.total <= deposited + q.added
        BY <1>1, <3>1 DEF Covered
      <3> QED
        BY <1>2, <1>4, <1>5, <3>2, <3>3
    <2> QED
      BY <1>2, <1>6, <2>1, <2>2 DEF Covered
  <1>11. Counted'
    <2>1. CASE h = Job
      <3>1. p.op = "close"
        BY <1>1, <2>1 DEF Counted
      <3>2. row'.state = "closing" /\ due' = {} /\ doing'[Job] = {}
        BY <1>3, <1>5, <1>6, <1>7, <2>1, <3>1, NextStates
      <3> QED
        BY <1>1, <1>3, <3>2 DEF Counted
    <2>2. CASE h # Job
      <3>1. due' = due /\ doing'[Job] = doing[Job]
        BY <1>3, <1>7, <2>2, HandlerFacts
      <3>2. row'.state = "active" => row.state = "active"
        BY <1>6
      <3> QED
        BY <1>1, <1>3, <3>1, <3>2 DEF Counted
    <2> QED
      BY <2>1, <2>2
  <1>12. ASSUME ~overlapped' PROVE Alone'
    <2>1. Alone /\ Fits(p)
      BY <1>3, <1>5, <1>12 DEF BInv, Alone
    <2>2. \A g \in Handler : Live(g)' = {}
      BY <1>5, <1>9, <2>1 DEF Alone
    <2>3. row'.cs.total = deposited' /\ row'.cs.user + row'.cs.exec = deposited'
      BY <1>2, <1>4, <1>5, <1>6, <2>1 DEF Alone, Fits
    <2>4. row'.cs.exec >= row.cs.exec
      BY <1>6, <2>1 DEF Fits
    <2>5. ASSUME NEW l \in listed'
          PROVE  l.cs.user = row'.cs.user /\ l.cs.exec = row'.cs.exec /\ row'.state # "active"
      <3>1. l \in listed /\ row.state # "active"
        BY <1>3, <2>1, <2>5 DEF Alone
      <3>2. p.op = "submit"
        BY <2>1, <3>1 DEF Fits
      <3> QED
        BY <1>5, <1>6, <2>1, <3>1, <3>2, NextStates DEF Alone, Fits
    <2>6. \A d \in due' : d.amount <= row'.cs.exec
      <3>1. \A d \in due' : d \in due /\ d.amount \in Nat
        BY <1>1, <1>3 DEF TypeOK
      <3> QED
        BY <1>4, <1>5, <1>6, <2>1, <2>4, <3>1 DEF Alone
    <2>7. \A i \in DOMAIN queue' : queue'[i] <= row'.cs.exec
      <3>1. queue' = queue /\ \A i \in DOMAIN queue : queue[i] \in Nat
        BY <1>1, <1>3 DEF TypeOK
      <3> QED
        BY <1>4, <1>5, <1>6, <2>1, <2>4, <3>1 DEF Alone
    <2> QED
      BY <2>2, <2>3, <2>5, <2>6, <2>7 DEF Alone
  <1> QED
    BY <1>8, <1>10, <1>11, <1>12 DEF BInv

\* An expired channel's second call changes the state and nothing else.
LEMMA FinalizeStep ==
    ASSUME BInv, NEW h \in Request, Finalize(h)
    PROVE  BInv'
  <1>1. TypeOK /\ Covered /\ Counted /\ h \in Handler /\ h # Job
    BY HandlerFacts DEF BInv
  <1>2. /\ row' = [row EXCEPT !.state = "closed"] /\ doing' = [doing EXCEPT ![h] = {}]
        /\ overlapped' = (overlapped \/ Pending(h) # {})
        /\ UNCHANGED <<listed, due, deposited, queue, failed>>
    BY DEF Finalize, Meet
  <1>3. row'.cs = row.cs /\ row'.state = "closed" /\ row' \in Row
    <2>1. row \in Row
      BY <1>1 DEF TypeOK
    <2> QED
      BY <1>2, <2>1 DEF Row
  <1>4. /\ doing'[h] = {} /\ \A g \in Handler : g # h => doing'[g] = doing[g]
        /\ doing' \in [Handler -> SUBSET [op : Op, new : ChannelState, added : Nat]]
    BY <1>1, <1>2 DEF TypeOK
  <1>5. TypeOK'
    <2>1. overlapped' \in BOOLEAN
      BY <1>2
    <2> QED
      BY <1>1, <1>2, <1>3, <1>4, <2>1 DEF TypeOK
  <1>6. Live(h)' = {} /\ \A g \in Handler : g # h => Live(g)' = Live(g)
    BY <1>4 DEF Live
  <1>7. Covered'
    BY <1>1, <1>2, <1>3, <1>6 DEF Covered
  <1>8. Counted'
    <2>1. doing'[Job] = doing[Job]
      BY <1>1, <1>4, HandlerFacts
    <2> QED
      BY <1>1, <1>2, <1>3, <2>1 DEF Counted
  <1>9. ASSUME ~overlapped' PROVE Alone'
    <2>1. Alone /\ Pending(h) = {}
      BY <1>2, <1>9 DEF BInv
    <2>2. \A g \in Handler : Live(g)' = {}
      BY <1>6, <2>1 DEF Pending, Live
    <2> QED
      BY <1>2, <1>3, <2>1, <2>2 DEF Alone
  <1> QED
    BY <1>5, <1>7, <1>8, <1>9 DEF BInv

\* The steps that neither start nor end a call.
LEMMA ListStep ==
    ASSUME BInv, ListSweep \/ ListDue \/ Enqueue \/ CloseFails
    PROVE  BInv'
  <1>1. TypeOK /\ Covered /\ Counted /\ UNCHANGED <<row, doing, deposited, overlapped>>
    BY DEF BInv, ListSweep, ListDue, Enqueue, CloseFails
  <1>2. row \in Row /\ row.cs.exec \in Nat /\ failed \in Nat /\ Len(queue) \in Nat
    BY <1>1, BookTypes
  <1>3. \A h \in Handler : Live(h)' = Live(h)
    BY <1>1 DEF Live
  <1>4. Covered'
    BY <1>1, <1>3 DEF Covered
  <1>5. ASSUME TypeOK', Counted',
               Alone => /\ \A l \in listed' : /\ l.cs.user = row.cs.user /\ l.cs.exec = row.cs.exec
                                              /\ row.state # "active"
                        /\ \A d \in due' : d.amount <= row.cs.exec
                        /\ \A i \in DOMAIN queue' : queue'[i] <= row.cs.exec
        PROVE  BInv'
    <2>1. ASSUME ~overlapped' PROVE Alone'
      <3>1. Alone
        BY <1>1, <2>1 DEF BInv
      <3>2. \A h \in Handler : \A q \in Live(h)' : Fits(q)'
        BY <1>1, <1>3, <3>1 DEF Alone, Fits
      <3> QED
        BY <1>1, <1>3, <1>5, <3>1, <3>2 DEF Alone
    <2> QED
      BY <1>4, <1>5, <2>1 DEF BInv
  <1>6. CASE ListSweep
    <2>1. listed' = {row} /\ row.state # "active" /\ UNCHANGED <<due, queue, failed>>
      BY <1>6 DEF ListSweep, InWindow
    <2>2. TypeOK'
      BY <1>1, <1>2, <2>1 DEF TypeOK
    <2>3. Counted'
      BY <1>1, <2>1 DEF Counted
    <2> QED
      BY <1>5, <2>1, <2>2, <2>3 DEF Alone
  <1>7. CASE ListDue
    <2>1. /\ due = {} /\ row.state = "active" /\ UNCHANGED <<listed, queue, failed>>
          /\ due' = {[amount |-> row.cs.exec, queued |-> FALSE]}
      BY <1>7 DEF ListDue, Due
    <2>2. TypeOK'
      BY <1>1, <1>2, <2>1 DEF TypeOK
    <2>3. Counted'
      BY <1>1, <2>1 DEF Counted
    <2> QED
      BY <1>2, <1>5, <2>1, <2>2, <2>3 DEF Alone
  <1>8. CASE Enqueue
    <2>1. PICK d \in due : /\ ~d.queued /\ queue' = Append(queue, d.amount)
                           /\ due' = {[d EXCEPT !.queued = TRUE]}
      BY <1>8 DEF Enqueue
    <2>2. d \in [amount : Nat, queued : BOOLEAN] /\ queue \in Seq(Nat)
          /\ UNCHANGED <<listed, failed>>
      BY <1>1, <1>8 DEF TypeOK, Enqueue
    <2>3. /\ \A e \in due' : e.amount = d.amount /\ e.queued = TRUE
          /\ due' \in SUBSET [amount : Nat, queued : BOOLEAN]
      BY <2>1, <2>2
    <2>4. /\ queue' \in Seq(Nat) /\ Len(queue') = Len(queue) + 1
          /\ \A i \in DOMAIN queue' : queue'[i] = d.amount \/ (i \in DOMAIN queue /\ queue'[i] = queue[i])
      BY <2>1, <2>2
    <2>5. TypeOK'
      BY <1>1, <2>2, <2>3, <2>4 DEF TypeOK
    <2>6. Counted'
      <3>1. Len(queue) <= failed
        BY <1>1, <2>1 DEF Counted
      <3>2. due' # {}
        BY <2>1
      <3> QED
        BY <1>1, <1>2, <2>2, <2>3, <2>4, <3>1, <3>2 DEF Counted
    <2>7. Alone => /\ \A e \in due' : e.amount <= row.cs.exec
                   /\ \A i \in DOMAIN queue' : queue'[i] <= row.cs.exec
      <3>1. Alone => d.amount <= row.cs.exec /\ \A i \in DOMAIN queue : queue[i] <= row.cs.exec
        BY DEF Alone
      <3> QED
        BY <2>3, <2>4, <3>1
    <2> QED
      BY <1>5, <2>2, <2>5, <2>6, <2>7 DEF Alone
  <1>9. CASE CloseFails
    <2>1. /\ due' = {} /\ failed' = failed + 1 /\ failed < MaxFailed
          /\ UNCHANGED <<listed, queue>>
      BY <1>9 DEF CloseFails
    <2>2. TypeOK'
      <3>1. failed' \in 0..MaxFailed
        BY <1>1, <2>1, BookConstants DEF TypeOK
      <3> QED
        BY <1>1, <2>1, <3>1 DEF TypeOK
    <2>3. Counted'
      BY <1>1, <1>2, <2>1 DEF Counted
    <2> QED
      BY <1>5, <2>1, <2>2, <2>3 DEF Alone
  <1> QED
    BY <1>6, <1>7, <1>8, <1>9

LEMMA CloseDueStep ==
    ASSUME BInv, CloseDue
    PROVE  BInv'
  <1>1. TypeOK /\ Job \in Handler /\ row.state = "active" /\ Read(Job, "close", row.cs)
        /\ UNCHANGED <<row, listed, due, deposited, queue, failed>>
    BY HandlerFacts DEF BInv, CloseDue, Active
  <1>2. row.cs \in ChannelState /\ row.cs.total \in Nat /\ row.cs.seq \in Nat
        /\ row.cs.exec \in Nat
    BY <1>1, BookTypes
  <1> DEFINE call == [op |-> "close", new |-> row.cs, added |-> row.cs.total - row.cs.total]
  <1>3. call.op = "close" /\ call.new = row.cs /\ call.added = 0
    BY <1>2
  <1>4. ~overlapped => Fits(call)
    <2>1. ~overlapped => row.cs.user + row.cs.exec = row.cs.total
      BY DEF BInv, Alone
    <2> HIDE DEF call
    <2> QED
      BY <1>1, <1>2, <1>3, <2>1 DEF Fits
  <1> QED
    BY <1>1, <1>2, <1>4, ReadStep DEF Op

LEMMA NextBInv == BInv /\ [Next]_vars => BInv'
  <1> SUFFICES ASSUME BInv, [Next]_vars PROVE BInv'
    OBVIOUS
  <1>1. CASE UNCHANGED vars
    <2>1. UNCHANGED <<row, doing, listed, due, deposited, queue, failed, overlapped>>
      BY <1>1 DEF vars
    <2>2. \A h \in Handler : Live(h)' = Live(h)
      BY <2>1 DEF Live
    <2>3. TypeOK' /\ Covered' /\ Counted'
      BY <2>1, <2>2 DEF BInv, TypeOK, Covered, Counted
    <2>4. ~overlapped' => Alone'
      BY <2>1, <2>2 DEF BInv, Alone, Fits
    <2> QED
      BY <2>3, <2>4 DEF BInv
  <1> QED
    BY <1>1, BeginStep, SweepStep, FinalizeStep, WriteStep, ListStep, CloseDueStep DEF Next

-----------------------------------------------------------------------------
(* The theorems.                                                            *)

\* The invariant above holds of every reachable state.
THEOREM Invariance == Spec => []BInv
  BY InitBInv, NextBInv, PTL DEF Spec

\* The book's rows, calls and queue always have the declared types; no balance
\* is ever negative.
THEOREM TypeCorrect == Spec => []TypeOK
  BY Invariance, PTL DEF BInv

\* payment-channel-protocol.md:247 of the book: it never shows more than was
\* deposited, and until two calls overlap the two sides add up to the deposits.
THEOREM BooksBalance == Spec => []Balanced
  <1>1. BInv => Balanced
    BY DEF BInv, Covered, Alone, Balanced
  <1> QED
    BY <1>1, Invariance, PTL

\* However calls overlap, the daily job enqueues a channel once, and once more
\* for each run that failed after its enqueue.
THEOREM SettlesOnce == Spec => []SettledOnce
  <1>1. BInv => SettledOnce
    BY DEF BInv, Counted, Alone, SettledOnce
  <1> QED
    BY <1>1, Invariance, PTL

\* The row changes by a call's write or by the second call of an expiry.
LEMMA RowChanges ==
    ASSUME BInv, [Next]_vars, row' # row
    PROVE  \/ \E h \in Handler : \E p \in Live(h) :
                  row'.cs = p.new /\ row'.state = NextStateOf(p.op)
           \/ row'.cs = row.cs /\ row'.state = "closed"
  <1>1. ASSUME NEW h \in Handler, Write(h)
        PROVE  \E g \in Handler : \E p \in Live(g) :
                   row'.cs = p.new /\ row'.state = NextStateOf(p.op)
    BY <1>1 DEF Write, Live
  <1>2. ASSUME NEW h \in Request, Finalize(h)
        PROVE  row'.cs = row.cs /\ row'.state = "closed"
    <2>1. row \in Row
      BY DEF BInv, TypeOK
    <2> QED
      BY <1>2, <2>1 DEF Finalize, Row
  <1> QED
    BY <1>1, <1>2 DEF Next, vars, Begin, Sweep, ListSweep, ListDue, Enqueue, CloseDue, CloseFails

\* payment-channel-protocol.md:248 of the book: until two calls overlap no write
\* takes the sequence number back, and none changes a balance under the old one.
THEOREM SequencesRise == Spec => SequenceRises
  <1>1. ASSUME BInv, [Next]_vars
        PROVE  [ ~overlapped => /\ row.cs.seq <= row'.cs.seq
                                /\ <<row.cs.user, row.cs.exec>> # <<row'.cs.user, row'.cs.exec>>
                                       => row.cs.seq < row'.cs.seq ]_row
    <2> SUFFICES ASSUME row' # row, ~overlapped
                 PROVE  /\ row.cs.seq <= row'.cs.seq
                        /\ <<row.cs.user, row.cs.exec>> # <<row'.cs.user, row'.cs.exec>>
                               => row.cs.seq < row'.cs.seq
      OBVIOUS
    <2>1. row.cs.seq \in Nat
      BY <1>1, BookTypes DEF BInv
    <2>2. ASSUME NEW h \in Handler, NEW p \in Live(h), row'.cs = p.new
          PROVE  /\ row.cs.seq <= row'.cs.seq
                 /\ <<row.cs.user, row.cs.exec>> # <<row'.cs.user, row'.cs.exec>>
                        => row.cs.seq < row'.cs.seq
      <3>1. Fits(p) /\ p.new.seq \in Nat
        BY <1>1, <2>2, CallTypes DEF BInv, Alone, Live
      <3> QED
        BY <2>1, <2>2, <3>1 DEF Fits
    <2> QED
      BY <1>1, <2>1, <2>2, RowChanges
  <1> QED
    BY <1>1, Invariance, PTL DEF Spec, SequenceRises

\* However calls overlap, a channel that left the active state never returns to
\* it; and until two calls overlap its balances are what they were at the close.
THEOREM ClosingFreezes == Spec => FrozenOnceClosing
  <1>1. ASSUME BInv, [Next]_vars
        PROVE  [ row.state # "active" =>
                   /\ row'.state # "active"
                   /\ ~overlapped =>
                        /\ <<row'.cs.user, row'.cs.exec>> = <<row.cs.user, row.cs.exec>>
                        /\ row.state = "closed" => row'.state = "closed" ]_row
    <2> SUFFICES ASSUME row' # row, row.state # "active"
                 PROVE  /\ row'.state # "active"
                        /\ ~overlapped =>
                             /\ <<row'.cs.user, row'.cs.exec>> = <<row.cs.user, row.cs.exec>>
                             /\ row.state = "closed" => row'.state = "closed"
      OBVIOUS
    <2>1. ASSUME NEW h \in Handler, NEW p \in Live(h),
                 row'.cs = p.new, row'.state = NextStateOf(p.op)
          PROVE  /\ row'.state # "active"
                 /\ ~overlapped =>
                      /\ <<row'.cs.user, row'.cs.exec>> = <<row.cs.user, row.cs.exec>>
                      /\ row.state = "closed" => row'.state = "closed"
      <3>1. p.op \in Op /\ p.op # "finalize"
        BY <1>1, <2>1, CallTypes DEF BInv, Live
      <3>2. row'.state # "active"
        BY <2>1, <3>1, NextStates
      <3>3. ASSUME ~overlapped
            PROVE  /\ p.new.user = row.cs.user /\ p.new.exec = row.cs.exec
                   /\ row.state # "closed"
        <4>1. Fits(p)
          BY <1>1, <2>1, <3>3 DEF BInv, Alone
        <4> QED
          BY <4>1 DEF Fits
      <3> QED
        BY <2>1, <3>2, <3>3
    <2> QED
      BY <1>1, <2>1, RowChanges
  <1> QED
    BY <1>1, Invariance, PTL DEF Spec, FrozenOnceClosing
=============================================================================
