---------------------------- MODULE RunnerProofs ----------------------------
(***************************************************************************)
(* What Run reports is what the subprocess wrote, for pipes, lines and      *)
(* outputs of any length.                                                   *)
(***************************************************************************)
EXTENDS Runner, TLAPS

(* One chunk more adds itself to the lines of its kind, and to no other. *)
LEMMA OneMoreLine ==
    ASSUME NEW n \in Nat, NEW kind
    PROVE  Lines(kind, n + 1)
              = Lines(kind, n) \cup {i \in {n + 1} : out[i] = kind}
BY DEF Lines

LEMMA LinesBelow ==
    ASSUME NEW n \in Nat, NEW kind
    PROVE  Lines(kind, n) \subseteq 1 .. n
BY DEF Lines

LEMMA RunnerInit == Init => RunnerInv
<1> SUFFICES ASSUME Init PROVE RunnerInv
    OBVIOUS
<1> USE RunnerAssumption DEF Init
<1>1. out \in Seq(Chunk) /\ Len(out) \in Nat
  <2>1. PICK n \in 0 .. MaxChunks : out \in [1 .. n -> Chunk]
        BY DEF Outputs
  <2> QED BY <2>1
<1>2. written \in 0 .. Len(out) /\ read \in 0 .. written /\ held \in 0 .. MaxLine
      BY <1>1
<1>3. account \in Account
      BY DEF Account
<1>4. TypeOK
      BY <1>1, <1>2, <1>3, Zenon DEF TypeOK
<1>5. \A kind : Lines(kind, read) = {}
      BY DEF Lines
<1>6. Unfinished(read) = {}
      BY DEF Unfinished
<1>7. PhaseInv
      BY <1>6 DEF PhaseInv, Ended
<1>8. AccountInv
      BY <1>5 DEF AccountInv, Ended
<1> QED BY <1>4, <1>7, <1>8 DEF RunnerInv

-----------------------------------------------------------------------------
LEMMA TypeStep ==
    ASSUME RunnerInv, [Next]_vars
    PROVE  TypeOK'
<1> USE RunnerAssumption DEF RunnerInv, TypeOK
<1>1. Len(out) \in Nat /\ written \in Nat /\ read \in Nat
      OBVIOUS
<1>2. CASE Cancel      BY <1>2 DEF Cancel, streamVars
<1>3. CASE Refuse      BY <1>3 DEF Refuse, streamVars
<1>4. CASE Start       BY <1>4 DEF Start, streamVars
<1>5. CASE Write       BY <1>1, <1>5 DEF Write
<1>6. CASE Exit        BY <1>6 DEF Exit, streamVars
<1>7. CASE ToolStarts  BY <1>7 DEF ToolStarts, streamVars
<1>8. CASE ToolEnds    BY <1>8 DEF ToolEnds, streamVars
<1>9. CASE Kill        BY <1>9 DEF Kill, streamVars
<1>10. CASE ReadPart
  <2>1. held # MaxLine
        BY <1>10 DEF ReadPart, PhaseInv
  <2> QED BY <1>1, <1>10, <2>1 DEF ReadPart
<1>11. CASE ReadLine   BY <1>1, <1>11 DEF ReadLine, Enter, Account
<1>12. CASE ReadEnd    BY <1>1, <1>12 DEF ReadEnd, Enter, Account
<1>13. CASE WaitReturns
       BY <1>13 DEF WaitReturns, Verdict, streamVars
<1>14. CASE UNCHANGED vars
       BY <1>14 DEF vars, streamVars
<1> QED BY <1>2, <1>3, <1>4, <1>5, <1>6, <1>7, <1>8, <1>9, <1>10, <1>11,
           <1>12, <1>13, <1>14 DEF Next, Scan

(* The chunks read are those of the account: a part is no line, and what    *)
(* ReadEnd adds is the line it found unfinished. *)
LEMMA AccountStep ==
    ASSUME RunnerInv, [Next]_vars
    PROVE  AccountInv'
<1> USE DEF RunnerInv, AccountInv
<1>1. read \in Nat
      BY DEF TypeOK
<1>2. ASSUME UNCHANGED <<out, read, account, cut>>, Ended' = Ended
      PROVE  AccountInv'
      BY <1>2 DEF Lines, Unfinished
<1>3. CASE Cancel      BY <1>2, <1>3 DEF Cancel, streamVars, Ended
<1>4. CASE Refuse      BY <1>2, <1>4 DEF Refuse, streamVars, Ended
<1>5. CASE Start       BY <1>2, <1>5 DEF Start, streamVars, Ended
<1>6. CASE Write       BY <1>2, <1>6 DEF Write, Ended
<1>7. CASE Exit        BY <1>2, <1>7 DEF Exit, streamVars, Ended
<1>8. CASE ToolStarts  BY <1>2, <1>8 DEF ToolStarts, streamVars, Ended
<1>9. CASE ToolEnds    BY <1>2, <1>9 DEF ToolEnds, streamVars, Ended
<1>10. CASE Kill       BY <1>2, <1>10 DEF Kill, streamVars, Ended
<1>11. CASE WaitReturns
  <2>1. Verdict # "refused" /\ outcome # "refused"
        BY <1>11 DEF WaitReturns, Verdict, PhaseInv
  <2> QED BY <1>2, <1>11, <2>1 DEF WaitReturns, streamVars, Ended
<1>12. CASE UNCHANGED vars
       BY <1>2, <1>12 DEF vars, streamVars, Ended
<1>13. CASE ReadPart
  <2>1. \A kind \in LineEnd : Lines(kind, read + 1) = Lines(kind, read)
    <3>1. \A kind \in LineEnd : {i \in {read + 1} : out[i] = kind} = {}
      <4>1. \A kind \in LineEnd : kind # "part"
            BY DEF LineEnd
      <4>2. out[read + 1] = "part"
            BY <1>13 DEF ReadPart
      <4> QED BY <4>1, <4>2
    <3>2. ASSUME NEW kind \in LineEnd
          PROVE  Lines(kind, read + 1) = Lines(kind, read)
      <4>1. Lines(kind, read + 1)
               = Lines(kind, read) \cup {i \in {read + 1} : out[i] = kind}
            BY <1>1, OneMoreLine
      <4> QED BY <3>1, <4>1
    <3> QED BY <3>2
  <2>2. \A kind, n : Lines(kind, n)' = Lines(kind, n')
        BY <1>13 DEF ReadPart, Lines
  <2>3. \A kind \in LineEnd : Lines(kind, read)' = Lines(kind, read)
        BY <2>1, <2>2, <1>13 DEF ReadPart
  <2>4. ~cut /\ ~Ended /\ (~cut' => ~Ended')
        BY <1>13 DEF ReadPart, Ended, PhaseInv
  <2> QED BY <2>3, <2>4, <1>13 DEF ReadPart, LineEnd
<1>14. CASE ReadLine
  <2> DEFINE l == out[read + 1]
  <2>1. \A kind, n : Lines(kind, n)' = Lines(kind, n')
        BY <1>14 DEF ReadLine, Lines
  <2>2. \A kind : Lines(kind, read)'
                    = Lines(kind, read) \cup {i \in {read + 1} : out[i] = kind}
        BY <1>1, <1>14, <2>1, OneMoreLine DEF ReadLine
  <2>3. ~cut /\ ~Ended /\ ~cut' /\ ~Ended'
        BY <1>14 DEF ReadLine, Ended, PhaseInv
  <2>4. account \in Account
        BY DEF TypeOK
  <2>5. account'.retries = Lines("retry", read)'
    <3>1. account'.retries
             = account.retries \cup (IF l = "retry" THEN {read + 1} ELSE {})
          BY <2>4, <1>14 DEF ReadLine, Enter, Account
    <3> QED BY <2>2, <3>1
  <2>6. account'.strays = Lines("stray", read)'
    <3>1. account'.strays
             = account.strays \cup (IF l = "stray" THEN {read + 1} ELSE {})
          BY <2>4, <1>14 DEF ReadLine, Enter, Account
    <3> QED BY <2>2, <2>3, <3>1
  <2>7. /\ account'.result \in Lines("result", read)' \cup {0}
        /\ \A i \in Lines("result", read)' : i <= account'.result
    <3>1. CASE l = "result"
      <4>1. account'.result = read + 1
            BY <2>4, <3>1, <1>14 DEF ReadLine, Enter, Account
      <4>2. Lines("result", read)' = Lines("result", read) \cup {read + 1}
            BY <2>2, <3>1
      <4>3. Lines("result", read) \subseteq 1 .. read
            BY <1>1, LinesBelow, Zenon
      <4>4. \A i \in Lines("result", read) : i <= read + 1
        <5> HIDE DEF RunnerInv, AccountInv
        <5> QED BY <1>1, <4>3
      <4>5. \A i \in Lines("result", read)' : i <= account'.result
        <5>1. read + 1 <= account'.result
              BY <1>1, <4>1
        <5> QED BY <4>1, <4>2, <4>4, <5>1, Zenon
      <4>6. account'.result \in Lines("result", read)'
            BY <4>1, <4>2, Zenon
      <4> QED BY <4>5, <4>6, Zenon
    <3>2. CASE l # "result"
      <4>1. account'.result = account.result
            BY <2>4, <3>2, <1>14 DEF ReadLine, Enter, Account
      <4>2. Lines("result", read)' = Lines("result", read)
            BY <2>2, <3>2
      <4> QED BY <4>1, <4>2
    <3> QED BY <3>1, <3>2
  <2> QED BY <2>3, <2>5, <2>6, <2>7
<1>15. CASE ReadEnd
  <2>1. \A kind : Lines(kind, read)' = Lines(kind, read)
        BY <1>15 DEF ReadEnd, Lines
  <2>2. Unfinished(read)' = Unfinished(read)
        BY <1>15 DEF ReadEnd, Unfinished
  <2>3. ~cut /\ ~Ended /\ ~cut' /\ Ended'
        BY <1>15 DEF ReadEnd, Ended, PhaseInv
  <2>4. account \in Account /\ held \in Nat
        BY RunnerAssumption DEF TypeOK
  <2>5. /\ account'.result = account.result
        /\ account'.retries = account.retries
        /\ account'.strays = account.strays \cup (IF held = 0 THEN {} ELSE {read})
        BY <1>15, <2>4 DEF ReadEnd, Enter, Account
  <2>6. Unfinished(read) = IF held = 0 THEN {} ELSE {read}
        BY <1>15, <2>4 DEF ReadEnd, PhaseInv, Unfinished
  <2> QED BY <2>1, <2>2, <2>3, <2>5, <2>6
<1> QED BY <1>3, <1>4, <1>5, <1>6, <1>7, <1>8, <1>9, <1>10, <1>11, <1>12,
           <1>13, <1>14, <1>15 DEF Next, Scan

(* Once the stream has ended the subprocess is gone, and nobody writes. *)
LEMMA PhaseStep ==
    ASSUME RunnerInv, [Next]_vars
    PROVE  PhaseInv'
<1> USE DEF RunnerInv, PhaseInv, Ended, Closed
<1>1. CASE Cancel      BY <1>1 DEF Cancel, streamVars, Unfinished
<1>2. CASE Refuse      BY <1>2 DEF Refuse, streamVars, Unfinished
<1>3. CASE Start       BY <1>3 DEF Start, streamVars, Unfinished
<1>4. CASE Write       BY <1>4 DEF Write, Unfinished
<1>5. CASE Exit        BY <1>5 DEF Exit, streamVars, Unfinished
<1>6. CASE ToolStarts  BY <1>6 DEF ToolStarts, streamVars, Unfinished
<1>7. CASE ToolEnds    BY <1>7 DEF ToolEnds, streamVars, Unfinished
<1>8. CASE Kill        BY <1>8 DEF Kill, streamVars, Unfinished
<1>9. CASE ReadPart
  <2>1. read \in Nat /\ held \in Nat /\ MaxLine \in Nat
        BY RunnerAssumption DEF TypeOK
  <2>2. read' = read + 1 /\ held' = held + 1 /\ out' = out /\ out[read + 1] = "part"
        BY <1>9 DEF ReadPart
  <2>3. Unfinished(read)' # {}
        BY <2>1, <2>2 DEF Unfinished
  <2>4. CASE cut'
        BY <1>9, <2>4 DEF ReadPart
  <2>5. CASE ~cut'
    <3>1. held' < MaxLine
      <4>1. held' # MaxLine
            BY <1>9, <2>5, Zenon DEF ReadPart
      <4>2. held < MaxLine
            BY <1>9 DEF ReadPart
      <4> QED BY <2>1, <2>2, <4>1, <4>2
    <3> QED BY <1>9, <2>1, <2>2, <2>3, <2>5, <3>1 DEF ReadPart
  <2> QED BY <2>4, <2>5
<1>10. CASE ReadLine
  <2>1. Unfinished(read)' = {}
        BY <1>10 DEF ReadLine, Unfinished
  <2> QED BY <1>10, <2>1, RunnerAssumption DEF ReadLine
<1>11. CASE ReadEnd    BY <1>11 DEF ReadEnd, Unfinished
<1>12. CASE WaitReturns
       BY <1>12 DEF WaitReturns, Verdict, streamVars, Unfinished
<1>13. CASE UNCHANGED vars
       BY <1>13 DEF vars, streamVars, Unfinished
<1> QED BY <1>1, <1>2, <1>3, <1>4, <1>5, <1>6, <1>7, <1>8, <1>9, <1>10, <1>11,
           <1>12, <1>13 DEF Next, Scan
-----------------------------------------------------------------------------
(* The inductive invariant of Run: the account is that of the chunks read,  *)
(* and when the stream has ended, of all that were written. *)
THEOREM RunnerInvariant == Spec => []RunnerInv
<1>1. RunnerInv /\ [Next]_vars => RunnerInv'
      BY TypeStep, AccountStep, PhaseStep DEF RunnerInv
<1> QED BY <1>1, RunnerInit, PTL DEF Spec

(* A run that was left alone, and whose lines all fit, is reported as what  *)
(* the subprocess wrote, for outputs, lines and pipes of any length: Run's  *)
(* account carries over the result event, and reads on to the end. *)
THEOREM WholeStreamReported == Spec => []WholeStream
<1>1. RunnerInv => WholeStream
  <2> SUFFICES ASSUME RunnerInv, run = "returned", ~cut,
                      outcome \in {"noResult", "result"}
               PROVE  WholeStream
      BY DEF WholeStream
  <2>1. Ended /\ read = written /\ read \in Nat
        BY DEF RunnerInv, PhaseInv, Ended, TypeOK
  <2>2. outcome = "result" <=> account.result # 0
        BY DEF RunnerInv, PhaseInv
  <2>3. account.result # 0 <=> Lines("result", read) # {}
        BY <2>1, LinesBelow DEF RunnerInv, AccountInv
  <2> QED BY <2>1, <2>2, <2>3 DEF RunnerInv, AccountInv, WholeStream
<1> QED BY <1>1, RunnerInvariant, PTL
=============================================================================
