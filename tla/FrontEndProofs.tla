---------------------------- MODULE FrontEndProofs ----------------------------
(***************************************************************************)
(* Proofs about the front end, for any scenarios and number of workers.    *)
(***************************************************************************)
EXTENDS FrontEnd, SequenceTheorems, TLAPS

------------------------------------------------------------------------------
(* The invariant.                                                            *)

TypeOK ==
    /\ scenario \in Scenarios
    /\ DOMAIN at = AllRequests /\ DOMAIN process = AllRequests
    /\ DOMAIN prime = Processes /\ DOMAIN threshold = Processes /\ DOMAIN barrier = Processes

Active(r) == at[r] \notin Ended

\* No other request runs in r's process.
Alone(r) == \A s \in Requests \ {r} : process[s] = process[r] => ~Active(s)

\* r has set the globals that it has come to.
Provided(r) ==
    /\ at[r] # "prime" =>
           prime[process[r]] = "P" /\ (IsTTP(r) => barrier[process[r]] = Participants(r) + 1)
    /\ (at[r] = "round" \/ scenario.deployment = "cli") /\ Session(r).kind = "sign" /\ ~IsTTP(r) =>
           \A k \in 1..Session(r).t : threshold[process[r]][k] = Session(r).tid[k]

FrontInv ==
    /\ TypeOK
    /\ \A r \in Requests : Active(r) => process[r] \in Processes /\ Session(r).t <= SPX_D
    /\ \A r \in Requests \ troubled : Active(r) => Alone(r) /\ Provided(r)

------------------------------------------------------------------------------
(* Requests.                                                                 *)

LEMMA RequestsAre ==
  ASSUME scenario \in Scenarios, NEW r \in Requests
  PROVE  /\ \E k \in DOMAIN scenario.sessions, party \in 0..SPX_D : r = <<k, party>> /\ r \in Members(k)
         /\ r \in AllRequests /\ r \in Processes
         /\ Session(r).t \in Nat /\ Session(r).n \in Nat
         /\ (scenario.deployment = "cli" => Session(r).t <= SPX_D)
<1>1. PICK k \in DOMAIN scenario.sessions : r \in Members(k)
  BY DEF Requests
<1>2. PICK session : session = scenario.sessions[k]
  OBVIOUS
<1>3. /\ session.kind \in {"keygen", "sign", "verify"}
      /\ session.n \in Nat /\ session.t \in Nat /\ (session.kind = "keygen" => session.n <= SPX_D)
      /\ session.tid \in Seq(1..SPX_D)
      /\ scenario.deployment = "cli" => session.t <= session.n /\ session.n <= SPX_D
      /\ SPX_D \in Nat
  BY <1>1, <1>2, FrontEndAssumption
<1>4. Range(session.tid) \subseteq 0..SPX_D
  <2>. SUFFICES ASSUME NEW x \in Range(session.tid) PROVE x \in 0..SPX_D
    OBVIOUS
  <2>1. PICK j \in DOMAIN session.tid : x = session.tid[j]
    BY DEF Range
  <2>2. session.tid[j] \in 1..SPX_D
    BY <1>3, <2>1, LenProperties
  <2>. QED
    BY <1>3, <2>1, <2>2
<1>5. \E party \in 0..SPX_D : r = <<k, party>>
  <2>1. CASE session.kind = "keygen"
    <3>1. PICK party \in 0..session.n : r = <<k, party>>
      BY <1>1, <1>2, <2>1 DEF Members
    <3>. QED
      BY <1>3, <2>1, <3>1
  <2>2. CASE session.kind = "sign"
    <3>1. PICK party \in {0} \cup Range(session.tid) : r = <<k, party>>
      BY <1>1, <1>2, <2>2 DEF Members
    <3>. QED
      BY <1>3, <1>4, <3>1
  <2>3. CASE session.kind = "verify"
    <3>1. PICK party \in Range(session.tid) : r = <<k, party>>
      BY <1>1, <1>2, <2>3 DEF Members
    <3>. QED
      BY <1>4, <3>1
  <2>. QED
    BY <1>3, <2>1, <2>2, <2>3
<1>6. r \in AllRequests
  BY <1>1, <1>5 DEF AllRequests
<1>7. Session(r) = session
  BY <1>2, <1>5 DEF Session
<1>. QED
  BY <1>1, <1>3, <1>5, <1>6, <1>7 DEF Processes

\* What is asked stays the same.
LEMMA SameRequests ==
  ASSUME scenario' = scenario
  PROVE  /\ Requests' = Requests
         /\ \A r : /\ Session(r)' = Session(r) /\ Participants(r)' = Participants(r)
                   /\ AfterPrime(r)' = AfterPrime(r)
  BY DEF Requests, Members, Session, Participants, AfterPrime

------------------------------------------------------------------------------
(* Steps.                                                                    *)

\* r is where it was, and what it has been provided with.
Untouched(r) ==
    /\ at'[r] = at[r] /\ process'[r] = process[r]
    /\ prime'[process[r]] = prime[process[r]] /\ barrier'[process[r]] = barrier[process[r]]
    /\ threshold'[process[r]] = threshold[process[r]]

\* Nobody but who is already there is in r's process.
NobodyComes(r) ==
    \A s \in Requests \ {r} : Active(s)' /\ process'[s] = process'[r] => Active(s) /\ process[s] = process[r]

LEMMA Kept ==
  ASSUME FrontInv, scenario' = scenario, NEW r \in Requests \ troubled, Active(r)',
         Untouched(r), NobodyComes(r)
  PROVE  Alone(r)' /\ Provided(r)'
<1>1. Active(r) /\ Alone(r) /\ Provided(r)
  BY DEF FrontInv, Untouched, Active
<1>2. Requests' = Requests /\ Session(r)' = Session(r) /\ Participants(r)' = Participants(r)
  BY SameRequests
<1>3. Alone(r)'
  BY <1>1, <1>2 DEF Alone, NobodyComes, Untouched
<1>4. Provided(r)'
  BY <1>1, <1>2 DEF Provided, Untouched, IsTTP
<1>. QED
  BY <1>3, <1>4

\* Of the requests only r0 goes on, and changes the globals of its process only.
Goes(r0, x) ==
    /\ scenario' = scenario /\ process' = process /\ troubled \subseteq troubled'
    /\ Active(r0) /\ at' = [at EXCEPT ![r0] = x]
    /\ DOMAIN prime' = Processes /\ DOMAIN threshold' = Processes /\ DOMAIN barrier' = Processes
    /\ \A p \in Processes : p # process[r0] =>
           prime'[p] = prime[p] /\ threshold'[p] = threshold[p] /\ barrier'[p] = barrier[p]

LEMMA GoesInv ==
  ASSUME FrontInv, NEW r0 \in Requests, NEW x, Goes(r0, x),
         r0 \notin troubled /\ x \notin Ended => Provided(r0)'
  PROVE  FrontInv'
<1>1. TypeOK /\ Requests' = Requests /\ \A r \in Requests : r \in AllRequests
  BY SameRequests, RequestsAre DEF FrontInv, TypeOK, Goes
<1>2. at'[r0] = x /\ \A r \in Requests : r # r0 => at'[r] = at[r]
  BY <1>1 DEF TypeOK, Goes
<1>3. TypeOK'
  BY <1>1 DEF TypeOK, Goes
<1>4. ASSUME NEW r \in Requests, Active(r)'
      PROVE  process'[r] \in Processes /\ Session(r).t' <= SPX_D /\ Active(r)
  <2>1. Active(r)
    BY <1>2, <1>4 DEF Goes, Active
  <2>. QED
    BY <2>1, SameRequests DEF FrontInv, Goes
<1>5. ASSUME NEW r \in Requests \ troubled', Active(r)' PROVE Alone(r)' /\ Provided(r)'
  <2>1. r \notin troubled /\ Active(r)
    BY <1>4, <1>5 DEF Goes
  <2>2. Alone(r)
    BY <2>1 DEF FrontInv
  <2>3. CASE r = r0
    <3>1. Alone(r)'
      BY <1>1, <1>4, <2>2 DEF Alone, Goes
    <3>. QED
      BY <1>2, <1>5, <2>1, <2>3, <3>1 DEF Active
  <2>4. CASE r # r0
    <3>1. process[r] # process[r0] /\ process[r] \in Processes
      BY <2>1, <2>2, <2>4 DEF Alone, Goes, FrontInv
    <3>2. Untouched(r)
      BY <1>2, <2>4, <3>1 DEF Untouched, Goes
    <3>3. NobodyComes(r)
      BY <1>4 DEF NobodyComes, Goes
    <3>. QED
      BY <1>5, <2>1, <3>2, <3>3, Kept DEF Goes
  <2>. QED
    BY <2>3, <2>4
<1>. QED
  BY <1>1, <1>3, <1>4, <1>5 DEF FrontInv

\* A step that leaves the globals alone, in the round or after it.
LEMMA OnlyGoes ==
  ASSUME FrontInv, NEW r0 \in Requests, NEW x, Active(r0),
         scenario' = scenario, process' = process, troubled \subseteq troubled', UNCHANGED globals,
         at' = [at EXCEPT ![r0] = x], x # "round", at[r0] # "prime"
  PROVE  FrontInv'
<1>1. TypeOK /\ Session(r0)' = Session(r0) /\ Participants(r0)' = Participants(r0) /\ r0 \in AllRequests
  BY SameRequests, RequestsAre DEF FrontInv, TypeOK
<1>2. prime' = prime /\ threshold' = threshold /\ barrier' = barrier /\ at'[r0] = x
  BY <1>1 DEF globals, TypeOK
<1>3. Goes(r0, x)
  BY <1>1, <1>2 DEF Goes, TypeOK
<1>4. r0 \notin troubled => Provided(r0)'
  BY <1>1, <1>2 DEF FrontInv, Provided, IsTTP
<1>. QED
  BY <1>3, <1>4, GoesInv

LEMMA SetParametersInv ==
  ASSUME FrontInv, NEW r \in Requests, SetParameters(r)
  PROVE  FrontInv'
<1>1. /\ TypeOK /\ process[r] \in Processes /\ at[r] = "prime" /\ Active(r) /\ r \in AllRequests
      /\ (r \notin troubled => Alone(r) /\ Provided(r))
  BY RequestsAre DEF SetParameters, FrontInv, Active, Ended, TypeOK
<1>2. /\ scenario' = scenario /\ process' = process /\ troubled' = troubled /\ threshold' = threshold
      /\ prime' = [prime EXCEPT ![process[r]] = "P"]
      /\ barrier' = IF IsTTP(r) THEN [barrier EXCEPT ![process[r]] = Participants(r) + 1] ELSE barrier
      /\ at' = [at EXCEPT ![r] = AfterPrime(r)]
  BY DEF SetParameters
<1>3. /\ DOMAIN barrier' = Processes /\ (IsTTP(r) => barrier'[process[r]] = Participants(r) + 1)
      /\ \A p \in Processes : p # process[r] => barrier'[p] = barrier[p]
  BY <1>1, <1>2 DEF TypeOK
<1>4. Goes(r, AfterPrime(r))
  BY <1>1, <1>2, <1>3 DEF Goes, TypeOK
<1>5. /\ Session(r)' = Session(r) /\ Participants(r)' = Participants(r)
      /\ at'[r] = AfterPrime(r) /\ prime'[process[r]] = "P"
  BY <1>1, <1>2, SameRequests DEF TypeOK
<1>6. at'[r] = "round" => IsTTP(r) \/ Session(r).kind = "keygen"
  BY <1>5 DEF AfterPrime
<1>7. r \notin troubled => Provided(r)'
  BY <1>1, <1>2, <1>3, <1>5, <1>6 DEF Provided, IsTTP
<1>. QED
  BY <1>4, <1>7, GoesInv

LEMMA LoadInv ==
  ASSUME FrontInv, NEW r \in Requests, Load(r)
  PROVE  FrontInv'
<1>1. /\ TypeOK /\ process[r] \in Processes /\ at[r] = "read" /\ Active(r) /\ r \in AllRequests
      /\ (r \notin troubled => Alone(r) /\ Provided(r))
  BY RequestsAre DEF Load, FrontInv, Active, Ended, TypeOK
<1>2. PICK new : new = [k \in 1..SPX_D |-> IF k <= Entries(r) THEN Session(r).tid[k] ELSE threshold[process[r]][k]]
  OBVIOUS
<1>3. /\ scenario' = scenario /\ process' = process /\ troubled' = troubled
      /\ prime' = prime /\ barrier' = barrier
      /\ threshold' = (IF scenario.deployment = "cli" THEN threshold ELSE [threshold EXCEPT ![process[r]] = new])
      /\ at' = [at EXCEPT ![r] = "round"]
  BY <1>2 DEF Load
<1>4. Goes(r, "round")
  <2>1. DOMAIN threshold' = Processes /\ \A p \in Processes : p # process[r] => threshold'[p] = threshold[p]
    BY <1>1, <1>3 DEF TypeOK
  <2>. QED
    BY <1>1, <1>3, <2>1 DEF Goes, TypeOK
<1>5. Session(r)' = Session(r) /\ Participants(r)' = Participants(r) /\ at'[r] = "round"
  BY <1>1, <1>3, SameRequests DEF TypeOK
<1>6. ASSUME r \notin troubled PROVE Provided(r)'
  <2>1. ASSUME ~IsTTP(r) PROVE \A k \in 1..Session(r).t : threshold'[process[r]][k] = Session(r).tid[k]
    <3>1. CASE scenario.deployment = "cli"
      BY <1>1, <1>3, <1>6, <2>1, <3>1 DEF Provided, Load
    <3>2. CASE scenario.deployment # "cli"
      <4>1. threshold'[process[r]] = new
        BY <1>1, <1>3, <3>2 DEF TypeOK
      <4>2. Session(r).t <= SPX_D /\ Session(r).t \in Nat /\ SPX_D \in Nat
        BY <1>1, RequestsAre, FrontEndAssumption DEF FrontInv, TypeOK
      <4>3. \A k \in 1..Session(r).t : new[k] = Session(r).tid[k]
        BY <1>2, <4>2 DEF Entries
      <4>. QED
        BY <4>1, <4>3
    <3>. QED
      BY <3>1, <3>2
  <2>. QED
    BY <1>1, <1>3, <1>5, <1>6, <2>1 DEF Provided, IsTTP
<1>. QED
  BY <1>4, <1>6, GoesInv

LEMMA OpenInv ==
  ASSUME FrontInv, NEW r \in Requests, Open(r)
  PROVE  FrontInv'
<1>1. PICK x : x \in {"answered", "read"} /\ at' = [at EXCEPT ![r] = x]
  BY DEF Open
<1>2. /\ at[r] = "open" /\ scenario' = scenario /\ process' = process /\ UNCHANGED globals
      /\ troubled \subseteq troubled'
  BY DEF Open
<1>. QED
  BY <1>1, <1>2, OnlyGoes DEF Active, Ended

LEMMA SaveInv ==
  ASSUME FrontInv, NEW r \in Requests, Save(r)
  PROVE  FrontInv'
<1>1. /\ at[r] = "save" /\ scenario' = scenario /\ process' = process /\ UNCHANGED globals
      /\ troubled \subseteq troubled' /\ at' = [at EXCEPT ![r] = "write"]
  BY DEF Save
<1>. QED
  BY <1>1, OnlyGoes DEF Active, Ended

LEMMA WriteInv ==
  ASSUME FrontInv, NEW r \in Requests, WriteKey(r) \/ WriteSig(r) \/ VerifyFile(r)
  PROVE  FrontInv'
<1>1. PICK x : x \in {"write2", "answered", "lost"} /\ at' = [at EXCEPT ![r] = x]
  BY DEF WriteKey, WriteSig, VerifyFile
<1>2. /\ at[r] \in {"write", "write2", "read"} /\ scenario' = scenario /\ process' = process /\ UNCHANGED globals
      /\ troubled' = troubled
  BY DEF WriteKey, WriteSig, VerifyFile, Writing
<1>. QED
  BY <1>1, <1>2, OnlyGoes DEF Active, Ended

------------------------------------------------------------------------------
(* A request comes, and a process ends.                                      *)

\* r0 enters p with a step x, and the globals are changed there only.
Enters(r0, p, x) ==
    /\ Enter(r0, p) /\ p \in Processes /\ at' = [at EXCEPT ![r0] = x]
    /\ DOMAIN prime' = Processes /\ DOMAIN threshold' = Processes /\ DOMAIN barrier' = Processes
    /\ \A q \in Processes : q # p =>
           prime'[q] = prime[q] /\ threshold'[q] = threshold[q] /\ barrier'[q] = barrier[q]

LEMMA EntersInv ==
  ASSUME FrontInv, NEW r0 \in Requests, NEW p, NEW x, Enters(r0, p, x),
         x \notin Ended => Provided(r0)' /\ Session(r0).t <= SPX_D
  PROVE  FrontInv'
<1>1. /\ TypeOK /\ scenario' = scenario /\ Requests' = Requests /\ (\A r \in Requests : r \in AllRequests)
      /\ process' = [process EXCEPT ![r0] = p] /\ ~Active(r0)
      /\ troubled' = troubled \cup (IF Running(p) = {} THEN {} ELSE Running(p) \cup {r0})
  BY SameRequests, RequestsAre DEF FrontInv, TypeOK, Enters, Enter, Active, Ended
<1>2. /\ at'[r0] = x /\ process'[r0] = p
      /\ \A r \in Requests : r # r0 => at'[r] = at[r] /\ process'[r] = process[r]
  BY <1>1 DEF TypeOK, Enters
<1>3. TypeOK'
  BY <1>1 DEF TypeOK, Enters
<1>4. ASSUME NEW r \in Requests, Active(r)' PROVE process'[r] \in Processes /\ Session(r).t' <= SPX_D
  <2>1. Session(r)' = Session(r)
    BY <1>1, SameRequests
  <2>2. CASE r = r0
    BY <1>2, <1>4, <2>1, <2>2 DEF Enters, Active
  <2>3. CASE r # r0
    BY <1>2, <1>4, <2>1, <2>3 DEF FrontInv, Active
  <2>. QED
    BY <2>2, <2>3
<1>5. ASSUME NEW r \in Requests \ troubled', Active(r)' PROVE Alone(r)' /\ Provided(r)'
  <2>1. CASE r = r0
    <3>1. Running(p) = {}
      BY <1>1, <1>5, <2>1
    <3>2. \A s \in Requests \ {r0} : process[s] = p => ~Active(s)
      BY <3>1 DEF Running, Active
    <3>3. Alone(r0)'
      BY <1>1, <1>2, <3>2 DEF Alone, Active
    <3>. QED
      BY <1>2, <1>5, <2>1, <3>3 DEF Active
  <2>2. CASE r # r0
    <3>1. r \notin troubled /\ Active(r) /\ process[r] \in Processes
      BY <1>1, <1>2, <1>5, <2>2 DEF Active, FrontInv
    <3>2. process[r] # p
      <4>. SUFFICES ASSUME process[r] = p PROVE FALSE
        OBVIOUS
      <4>1. r \in Running(p)
        BY <3>1 DEF Running, Active
      <4>. QED
        BY <1>1, <1>5, <4>1
    <3>3. Untouched(r)
      BY <1>2, <2>2, <3>1, <3>2 DEF Untouched, Enters
    <3>4. NobodyComes(r)
      BY <1>2, <2>2, <3>2 DEF NobodyComes, Active
    <3>. QED
      BY <1>1, <1>5, <3>1, <3>3, <3>4, Kept
  <2>. QED
    BY <2>1, <2>2
<1>. QED
  BY <1>1, <1>3, <1>4, <1>5 DEF FrontInv

LEMMA ArriveInv ==
  ASSUME FrontInv, NEW r \in Requests, Arrive(r)
  PROVE  FrontInv'
<1>1. PICK p \in {r} \cup {<<0, w>> : w \in 0..scenario.workers} : Reject(r, p) \/ Begin(r, p) \/ InitParams(r, p)
  BY DEF Arrive
<1>2. TypeOK /\ r \in AllRequests /\ r \in Processes
  BY RequestsAre DEF FrontInv, TypeOK
<1>3. p \in Processes
  <2>1. scenario.workers \in 1..Workers /\ Workers \in Nat
    BY <1>2, FrontEndAssumption DEF TypeOK
  <2>2. CASE p = r
    BY <1>2, <2>2
  <2>3. CASE p # r
    <3>1. PICK w \in 0..scenario.workers : p = <<0, w>>
      BY <1>1, <2>3
    <3>2. w \in 0..Workers
      BY <2>1
    <3>. QED
      BY <3>1, <3>2 DEF Processes
  <2>. QED
    BY <2>2, <2>3
<1>4. CASE Reject(r, p)
  <2>1. Enter(r, p) /\ at' = [at EXCEPT ![r] = "answered"] /\ UNCHANGED <<prime, threshold, barrier>>
    BY <1>4 DEF Reject, globals
  <2>2. Enters(r, p, "answered")
    BY <1>2, <1>3, <2>1 DEF Enters, TypeOK
  <2>. QED
    BY <2>2, EntersInv DEF Ended
<1>5. CASE Begin(r, p)
  <2>1. /\ Enter(r, p) /\ at' = [at EXCEPT ![r] = "prime"] /\ prime' = [prime EXCEPT ![p] = "zero"]
        /\ UNCHANGED <<threshold, barrier>> /\ Accepts(r) /\ scenario.deployment # "cli"
    BY <1>5 DEF Begin
  <2>2. Enters(r, p, "prime")
    BY <1>2, <1>3, <2>1 DEF Enters, TypeOK
  <2>3. Session(r).t <= SPX_D
    <3>1. Session(r).t \in Nat /\ SPX_D \in Nat /\ Session(r).n \in Nat
      BY <1>2, RequestsAre, FrontEndAssumption DEF TypeOK
    <3>. QED
      BY <2>1, <3>1 DEF Accepts
  <2>4. Provided(r)'
    <3>1. at'[r] = "prime" /\ scenario' = scenario
      BY <1>2, <2>1 DEF TypeOK, Enter
    <3>. QED
      BY <2>1, <3>1 DEF Provided
  <2>. QED
    BY <2>2, <2>3, <2>4, EntersInv
<1>6. CASE InitParams(r, p)
  <2>1. PICK new : new = [k \in 1..SPX_D |-> IF k <= Session(r).t THEN Session(r).tid[k] ELSE threshold[p][k]]
    OBVIOUS
  <2>2. /\ Enter(r, p) /\ at' = [at EXCEPT ![r] = AfterPrime(r)] /\ scenario.deployment = "cli"
        /\ prime' = [prime EXCEPT ![p] = "P"] /\ threshold' = [threshold EXCEPT ![p] = new]
        /\ barrier' = [barrier EXCEPT ![p] = Participants(r) + (IF IsTTP(r) THEN 1 ELSE 0)]
        /\ scenario' = scenario /\ process' = [process EXCEPT ![r] = p]
    BY <1>6, <2>1 DEF InitParams, Enter
  <2>3. Enters(r, p, AfterPrime(r))
    BY <1>2, <1>3, <2>2 DEF Enters, TypeOK
  <2>4. Session(r).t \in Nat /\ Session(r).t <= SPX_D /\ SPX_D \in Nat
    BY <1>2, <2>2, RequestsAre, FrontEndAssumption DEF TypeOK
  <2>5. /\ prime'[p] = "P" /\ threshold'[p] = new /\ process'[r] = p
        /\ (IsTTP(r) => barrier'[p] = Participants(r) + 1)
    BY <1>2, <1>3, <2>2 DEF TypeOK
  <2>6. \A k \in 1..Session(r).t : new[k] = Session(r).tid[k]
    BY <2>1, <2>4
  <2>7. Session(r)' = Session(r) /\ Participants(r)' = Participants(r)
    BY <2>2, SameRequests
  <2>8. Provided(r)'
    BY <2>5, <2>6, <2>7 DEF Provided, IsTTP
  <2>. QED
    BY <2>3, <2>4, <2>8, EntersInv
<1>. QED
  BY <1>1, <1>4, <1>5, <1>6

\* Who goes on is in another process than the one that ends.
LEMMA EndInv ==
  ASSUME FrontInv, NEW p, End(p)
  PROVE  FrontInv'
<1>1. /\ scenario' = scenario /\ process' = process /\ troubled' = troubled
      /\ prime' = [prime EXCEPT ![p] = "null"] /\ threshold' = [threshold EXCEPT ![p] = Fresh]
      /\ barrier' = [barrier EXCEPT ![p] = 0]
      /\ at' = [r \in AllRequests |->
                 IF r \in Running(p) \/ (p = Server /\ r \in Requests /\ at[r] = "absent") THEN "lost" ELSE at[r]]
  BY DEF End
<1>2. TypeOK /\ Requests' = Requests /\ (\A r \in Requests : r \in AllRequests)
  BY <1>1, SameRequests, RequestsAre DEF FrontInv, TypeOK
<1>3. TypeOK'
  BY <1>1, <1>2 DEF TypeOK
<1>4. ASSUME NEW r \in Requests, Active(r)'
      PROVE  Active(r) /\ at'[r] = at[r] /\ process[r] # p /\ process[r] \in Processes /\ Session(r).t' <= SPX_D
  <2>1. at'[r] = at[r] /\ r \notin Running(p)
    BY <1>1, <1>2, <1>4 DEF Active, Ended
  <2>2. Active(r) /\ process[r] # p
    BY <1>4, <2>1 DEF Active, Running
  <2>. QED
    BY <1>1, <2>1, <2>2, SameRequests DEF FrontInv
<1>5. ASSUME NEW r \in Requests \ troubled, Active(r)' PROVE Alone(r)' /\ Provided(r)'
  <2>1. Untouched(r)
    BY <1>1, <1>2, <1>4, <1>5 DEF Untouched, TypeOK
  <2>2. NobodyComes(r)
    BY <1>1, <1>4 DEF NobodyComes
  <2>. QED
    BY <1>1, <1>5, <2>1, <2>2, Kept
<1>. QED
  BY <1>1, <1>2, <1>3, <1>4, <1>5 DEF FrontInv

LEMMA MeetInv ==
  ASSUME FrontInv, NEW k, Meet(k)
  PROVE  FrontInv'
<1>1. /\ scenario' = scenario /\ process' = process /\ troubled' = troubled
      /\ prime' = prime /\ threshold' = threshold /\ barrier' = barrier
      /\ at' = [r \in AllRequests |->
                   IF r \notin Members(k) THEN at[r] ELSE IF IsTTP(r) THEN "answered" ELSE "save"]
      /\ \A r \in Members(k) : at[r] = "round"
  BY DEF Meet, Present, globals
<1>2. TypeOK /\ Requests' = Requests /\ (\A r \in Requests : r \in AllRequests)
  BY <1>1, SameRequests, RequestsAre DEF FrontInv, TypeOK
<1>3. TypeOK'
  BY <1>1, <1>2 DEF TypeOK
<1>4. ASSUME NEW r \in Requests, Active(r)'
      PROVE  Active(r) /\ process[r] \in Processes /\ Session(r).t' <= SPX_D
  <2>1. Active(r)
    BY <1>1, <1>2, <1>4 DEF Active, Ended
  <2>. QED
    BY <1>1, <2>1, SameRequests DEF FrontInv
<1>5. ASSUME NEW r \in Requests \ troubled, Active(r)' PROVE Alone(r)' /\ Provided(r)'
  <2>1. Alone(r) /\ Provided(r)
    BY <1>4, <1>5 DEF FrontInv
  <2>2. Session(r)' = Session(r) /\ Participants(r)' = Participants(r)
    BY <1>1, SameRequests
  <2>3. Alone(r)'
    BY <1>1, <1>2, <1>4, <2>1 DEF Alone
  <2>4. at'[r] = at[r] \/ (at[r] = "round" /\ at'[r] = "save")
    BY <1>1, <1>2, <1>5 DEF Active, Ended
  <2>5. Provided(r)'
    BY <1>1, <2>1, <2>2, <2>4 DEF Provided, IsTTP
  <2>. QED
    BY <2>3, <2>5
<1>. QED
  BY <1>1, <1>2, <1>3, <1>4, <1>5 DEF FrontInv

------------------------------------------------------------------------------
(* The theorems.                                                             *)

LEMMA InitInv == Init => FrontInv
<1>. SUFFICES ASSUME Init PROVE FrontInv
  OBVIOUS
<1>1. TypeOK /\ \A r \in Requests : ~Active(r)
  <2>1. TypeOK
    BY DEF Init, TypeOK
  <2>2. \A r \in Requests : r \in AllRequests
    BY <2>1, RequestsAre DEF TypeOK
  <2>. QED
    BY <2>1, <2>2 DEF Init, Active, Ended
<1>. QED
  BY <1>1 DEF FrontInv

LEMMA StepInv ==
  ASSUME FrontInv, [Next]_vars
  PROVE  FrontInv'
<1>1. CASE UNCHANGED vars
  <2>1. /\ scenario' = scenario /\ process' = process /\ troubled' = troubled /\ at' = at
        /\ prime' = prime /\ threshold' = threshold /\ barrier' = barrier
    BY <1>1 DEF vars, globals
  <2>2. Requests' = Requests /\ \A r : Session(r)' = Session(r) /\ Participants(r)' = Participants(r)
    BY <2>1, SameRequests
  <2>3. \A r : (Active(r)' <=> Active(r)) /\ (Alone(r)' <=> Alone(r)) /\ (Provided(r)' <=> Provided(r))
    BY <2>1, <2>2 DEF Active, Alone, Provided, IsTTP
  <2>. QED
    BY <2>1, <2>2, <2>3 DEF FrontInv, TypeOK
<1>2. ASSUME NEW r \in Requests, Arrive(r) PROVE FrontInv'
  BY <1>2, ArriveInv
<1>3. ASSUME NEW r \in Requests, Proceed(r) PROVE FrontInv'
  BY <1>3, SetParametersInv, OpenInv, LoadInv, SaveInv, WriteInv DEF Proceed
<1>4. ASSUME NEW r \in Requests, GiveUp(r) PROVE FrontInv'
  BY <1>4, EndInv DEF GiveUp
<1>5. ASSUME NEW k \in DOMAIN scenario.sessions, Meet(k) PROVE FrontInv'
  BY <1>5, MeetInv
<1>6. ASSUME NEW p \in Processes, WorkerTimeout(p) PROVE FrontInv'
  BY <1>6, EndInv DEF WorkerTimeout
<1>. QED
  BY <1>1, <1>2, <1>3, <1>4, <1>5, <1>6 DEF Next

\* A request that nobody has met in its process is alone there and has set all the
\* globals that it has come to.
THEOREM AloneAndProvided == Spec => []FrontInv
  BY InitInv, StepInv, PTL DEF Spec

\* In its round a request finds its own parameters, whatever its process has served
\* before it.
THEOREM ParametersOwn == Spec => []OwnParameters
<1>1. FrontInv => OwnParameters
  BY DEF FrontInv, OwnParameters, Own, Provided, Active, Ended
<1>. QED
  BY <1>1, AloneAndProvided, PTL
------------------------------------------------------------------------------
(* The signatures in the files.                                              *)

\* What a request does with a file, from when it has a result; and what comes after
\* its round.
Saving == {"save"} \cup Writing
Past == Saving \cup {"answered", "lost"}

Owned(k, party) == k.of # -1 => k.party = party
HasResult(r) == result[r] # NoSignature

MemoryOK ==
    /\ DOMAIN key = AllRequests /\ DOMAIN result = AllRequests /\ DOMAIN answer = AllRequests
    /\ DOMAIN keyFile = Parties /\ DOMAIN sigFile = Parties
    /\ \A party \in Parties : Owned(keyFile[party].key, party)

\* Whom r is for, and whose key it uses.
KeyInv(r) ==
    /\ at[r] \in {"open", "read"} \cup Saving => Party(r) \in Parties
    /\ at[r] \in Saving /\ Session(r).kind # "keygen" => HasResult(r)
    /\ Owned(key[r], Party(r))

\* A result is that of a round which all participants have left.
ResultInv(r) ==
    HasResult(r) =>
        /\ Session(r).kind = "sign" /\ Party(r) \in Parties
        /\ \A m \in Members(r[1]) : at[m] \in Past
        /\ SameKeygen(r[1]) /\ ~Disturbed(r[1]) => result[r].valid
        /\ at[r] = "answered" => answer[r] = IF result[r].valid THEN "0" ELSE "-1"

\* Other requests for a signature of r's party.
Rivals(r) == {s \in Requests \ {r} : Session(s).kind = "sign" /\ Party(s) = Party(r)}

\* r's file has as much of its signature as r has written.
FileInv(r) ==
    HasResult(r) /\ r \notin troubled =>
        /\ at[r] \in Writing => DOMAIN sigFile[Party(r)] = 1..2 /\ \A s \in Rivals(r) : at[s] \notin Writing
        /\ at[r] = "write2" => sigFile[Party(r)][1] = result[r]
        /\ at[r] = "answered" /\ (\A s \in Rivals(r) : ~HasResult(s)) =>
               /\ DOMAIN sigFile[Party(r)] = 1..2
               /\ sigFile[Party(r)][1] = result[r] /\ sigFile[Party(r)][2] = result[r]

SavedInv == MemoryOK /\ \A r \in Requests : KeyInv(r) /\ ResultInv(r) /\ FileInv(r)


LEMMA MembersAre ==
  ASSUME scenario \in Scenarios, NEW r \in Requests
  PROVE  /\ r[1] \in DOMAIN scenario.sessions /\ r \in Members(r[1])
         /\ IsTTP(r) \/ Party(r) \in Parties
         /\ \A m \in Members(r[1]) : m \in Requests /\ m[1] = r[1] /\ Session(m) = Session(r)
<1>1. PICK k \in DOMAIN scenario.sessions, party \in 0..SPX_D : r = <<k, party>> /\ r \in Members(k)
  BY RequestsAre
<1>2. r[1] = k /\ Party(r) = party
  BY <1>1 DEF Party
<1>3. IsTTP(r) \/ Party(r) \in Parties
  BY <1>2, FrontEndAssumption DEF IsTTP, Parties
<1>4. ASSUME NEW m \in Members(k) PROVE m \in Requests /\ m[1] = k
  <2>1. m \in Requests
    BY DEF Requests
  <2>2. PICK x : m = <<k, x>>
    BY DEF Members
  <2>. QED
    BY <2>1, <2>2
<1>. QED
  BY <1>1, <1>2, <1>3, <1>4 DEF Session

\* Nothing is signed, and who has a result only gives up or goes on as it is.
Frame ==
    /\ scenario' = scenario /\ result' = result /\ sigFile' = sigFile /\ troubled \subseteq troubled'
    /\ MemoryOK'
    /\ \A r \in Requests :
           /\ HasResult(r) => at'[r] \in {at[r], "lost"} /\ answer'[r] = answer[r]
           /\ at[r] \in Past => at'[r] \in Past /\ key'[r] = key[r]
           /\ at'[r] \in {"open", "read"} \cup Saving => Party(r) \in Parties
           /\ at'[r] \in Saving /\ Session(r).kind # "keygen" => at[r] \in Saving
           /\ at'[r] \in Writing /\ Session(r).kind = "sign" => at[r] \in Writing
           /\ Owned(key'[r], Party(r))

LEMMA FrameSaved ==
  ASSUME scenario \in Scenarios, SavedInv, Frame
  PROVE  SavedInv'
<1>1. /\ Requests' = Requests /\ \A r : Session(r)' = Session(r) /\ Party(r)' = Party(r)
      /\ \A k : Members(k)' = Members(k)
  BY SameRequests DEF Frame, Party, Members
<1>2. \A r : HasResult(r)' <=> HasResult(r)
  BY DEF Frame, HasResult
<1>3. ASSUME NEW r \in Requests PROVE KeyInv(r)'
  BY <1>1, <1>2 DEF KeyInv, SavedInv, Frame
<1>4. ASSUME NEW r \in Requests PROVE ResultInv(r)'
  <2>. SUFFICES ASSUME HasResult(r) PROVE ResultInv(r)'
    BY <1>2 DEF ResultInv
  <2>1. /\ Session(r).kind = "sign" /\ Party(r) \in Parties
        /\ \A m \in Members(r[1]) : at[m] \in Past
        /\ SameKeygen(r[1]) /\ ~Disturbed(r[1]) => result[r].valid
        /\ at[r] = "answered" => answer[r] = IF result[r].valid THEN "0" ELSE "-1"
    BY DEF SavedInv, ResultInv
  <2>2. \A m \in Members(r[1]) : at'[m] \in Past /\ key'[m] = key[m]
    BY <2>1, MembersAre DEF Frame
  <2>3. SameKeygen(r[1])' <=> SameKeygen(r[1])
    BY <1>1, <2>2 DEF SameKeygen, Signers
  <2>4. Disturbed(r[1]) => Disturbed(r[1])'
    BY <1>1 DEF Disturbed, Frame
  <2>5. at'[r] = "answered" => at[r] = "answered" /\ answer'[r] = answer[r]
    BY DEF Frame
  <2>6. result' = result
    BY DEF Frame
  <2>7. \A m \in Members(r[1])' : at'[m] \in Past
    BY <1>1, <2>2
  <2>8. SameKeygen(r[1])' /\ ~Disturbed(r[1])' => result'[r].valid
    BY <2>1, <2>3, <2>4, <2>6
  <2>9. at'[r] = "answered" => answer'[r] = IF result'[r].valid THEN "0" ELSE "-1"
    BY <2>1, <2>5, <2>6
  <2>10. Session(r)'.kind = "sign" /\ Party(r)' \in Parties
    BY <1>1, <2>1
  <2>. QED
    BY <2>7, <2>8, <2>9, <2>10 DEF ResultInv, Parties, Past, Saving, Writing
<1>5. ASSUME NEW r \in Requests PROVE FileInv(r)'
  <2>. SUFFICES ASSUME HasResult(r), r \notin troubled' PROVE FileInv(r)'
    BY <1>2 DEF FileInv
  <2>1. FileInv(r) /\ r \notin troubled /\ at'[r] \in {at[r], "lost"} /\ sigFile' = sigFile /\ result' = result
    BY DEF Frame, SavedInv
  <2>2. Rivals(r)' = Rivals(r)
    BY <1>1 DEF Rivals
  <2>3. \A s \in Rivals(r) : at[s] \notin Writing => at'[s] \notin Writing
    BY DEF Frame, Rivals
  <2>. QED
    BY <1>1, <1>2, <2>1, <2>2, <2>3 DEF FileInv, Writing
<1>. QED
  BY <1>1, <1>3, <1>4, <1>5 DEF SavedInv, Frame

\* A request goes on that has no result and gets none.
LEMMA GoesSaved ==
  ASSUME FrontInv, SavedInv, NEW r0 \in Requests, NEW x,
         scenario' = scenario, result' = result, sigFile' = sigFile, troubled \subseteq troubled',
         MemoryOK', at' = [at EXCEPT ![r0] = x], ~HasResult(r0),
         \A r \in Requests \ {r0} : answer'[r] = answer[r] /\ key'[r] = key[r],
         at[r0] \in Past => x \in Past /\ key'[r0] = key[r0],
         x \in {"open", "read"} \cup Saving => Party(r0) \in Parties,
         x \in Saving => Session(r0).kind = "keygen",
         Owned(key'[r0], Party(r0))
  PROVE  SavedInv'
<1>1. scenario \in Scenarios /\ DOMAIN at = AllRequests /\ \A r \in Requests : r \in AllRequests
  BY RequestsAre DEF FrontInv, TypeOK
<1>2. at'[r0] = x /\ \A r \in Requests : r # r0 => at'[r] = at[r]
  BY <1>1
<1>3. ASSUME NEW r \in Requests
      PROVE  /\ HasResult(r) => at'[r] \in {at[r], "lost"} /\ answer'[r] = answer[r]
             /\ at[r] \in Past => at'[r] \in Past /\ key'[r] = key[r]
             /\ at'[r] \in {"open", "read"} \cup Saving => Party(r) \in Parties
             /\ at'[r] \in Saving /\ Session(r).kind # "keygen" => at[r] \in Saving
             /\ at'[r] \in Writing /\ Session(r).kind = "sign" => at[r] \in Writing
             /\ Owned(key'[r], Party(r))
  <2>1. CASE r = r0
    BY <1>2, <2>1 DEF Saving
  <2>2. CASE r # r0
    BY <1>2, <2>2 DEF SavedInv, KeyInv
  <2>. QED
    BY <2>1, <2>2
<1>4. Frame
  BY <1>3 DEF Frame
<1>. QED
  BY <1>1, <1>4, FrameSaved

LEMMA WithResult ==
  ASSUME FrontInv, SavedInv, NEW r \in Requests
  PROVE  /\ scenario \in Scenarios /\ r \in AllRequests /\ DOMAIN at = AllRequests
         /\ IsTTP(r) \/ Party(r) \in Parties
         /\ KeyInv(r)
         /\ HasResult(r) => at[r] \in Past /\ Session(r).kind = "sign"
<1>1. scenario \in Scenarios /\ DOMAIN at = AllRequests
  BY DEF FrontInv, TypeOK
<1>2. r \in AllRequests /\ r \in Members(r[1]) /\ (IsTTP(r) \/ Party(r) \in Parties)
  BY <1>1, RequestsAre, MembersAre
<1>. QED
  BY <1>1, <1>2 DEF SavedInv, ResultInv

LEMMA AfterPrimeIs ==
  ASSUME NEW r
  PROVE  AfterPrime(r) = "round" \/ (AfterPrime(r) = "open" /\ ~IsTTP(r))
BY DEF AfterPrime

LEMMA ArriveSaved ==
  ASSUME FrontInv, SavedInv, NEW r \in Requests, Arrive(r)
  PROVE  SavedInv'
<1>1. PICK p : Reject(r, p) \/ Begin(r, p) \/ InitParams(r, p)
  BY DEF Arrive
<1>2. /\ at[r] = "absent" /\ scenario' = scenario /\ result' = result /\ sigFile' = sigFile /\ key' = key
      /\ keyFile' = keyFile /\ troubled \subseteq troubled'
  BY <1>1 DEF Reject, Begin, InitParams, Enter, files
<1>3. DOMAIN answer' = AllRequests /\ \A s \in Requests \ {r} : answer'[s] = answer[s]
  <2>1. answer' = answer \/ answer' = [answer EXCEPT ![r] = "NULL"]
    BY <1>1 DEF Reject, Begin, InitParams
  <2>2. DOMAIN answer = AllRequests
    BY DEF SavedInv, MemoryOK
  <2>3. CASE answer' = answer
    BY <2>2, <2>3
  <2>4. CASE answer' = [answer EXCEPT ![r] = "NULL"]
    BY <2>2, <2>4
  <2>. QED
    BY <2>1, <2>3, <2>4
<1>4. PICK x : at' = [at EXCEPT ![r] = x] /\ (x \in {"answered", "prime", "round"} \/ (x = "open" /\ ~IsTTP(r)))
  BY <1>1, AfterPrimeIs DEF Reject, Begin, InitParams
<1>5. ~HasResult(r) /\ at[r] \notin Past
  BY <1>2, WithResult DEF Past, Saving, Writing
<1>6. MemoryOK'
  BY <1>2, <1>3 DEF SavedInv, MemoryOK, Parties
<1>7. x \notin Saving /\ (x \in {"open", "read"} \cup Saving => Party(r) \in Parties) /\ Owned(key'[r], Party(r))
  BY <1>2, <1>4, WithResult DEF Saving, Writing, KeyInv
<1>. QED
  BY <1>2, <1>3, <1>4, <1>5, <1>6, <1>7, GoesSaved

LEMMA SetParametersSaved ==
  ASSUME FrontInv, SavedInv, NEW r \in Requests, SetParameters(r)
  PROVE  SavedInv'
<1>1. /\ at[r] = "prime" /\ scenario' = scenario /\ result' = result /\ sigFile' = sigFile /\ key' = key
      /\ answer' = answer /\ keyFile' = keyFile /\ troubled' = troubled /\ at' = [at EXCEPT ![r] = AfterPrime(r)]
  BY DEF SetParameters, memory, files
<1>2. ~HasResult(r) /\ at[r] \notin Past
  BY <1>1, WithResult DEF Past, Saving, Writing
<1>3. MemoryOK'
  BY <1>1 DEF SavedInv, MemoryOK, Parties
<1>4. /\ AfterPrime(r) \notin Saving /\ (AfterPrime(r) \in {"open", "read"} \cup Saving => Party(r) \in Parties)
      /\ Owned(key'[r], Party(r))
  BY <1>1, WithResult, AfterPrimeIs DEF Saving, Writing, KeyInv
<1>. QED
  BY <1>1, <1>2, <1>3, <1>4, GoesSaved

LEMMA OpenSaved ==
  ASSUME FrontInv, SavedInv, NEW r \in Requests, Open(r)
  PROVE  SavedInv'
<1>1. /\ at[r] = "open" /\ scenario' = scenario /\ result' = result /\ sigFile' = sigFile /\ key' = key
      /\ keyFile' = keyFile /\ troubled \subseteq troubled'
      /\ \E y : answer' = [answer EXCEPT ![r] = y]
  BY DEF Open, files
<1>2. PICK x : x \in {"answered", "read"} /\ at' = [at EXCEPT ![r] = x]
  BY DEF Open
<1>3. DOMAIN answer' = AllRequests /\ \A s \in Requests \ {r} : answer'[s] = answer[s]
  BY <1>1 DEF SavedInv, MemoryOK
<1>4. ~HasResult(r) /\ at[r] \notin Past
  BY <1>1, WithResult DEF Past, Saving, Writing
<1>5. MemoryOK'
  BY <1>1, <1>3 DEF SavedInv, MemoryOK, Parties
<1>6. x \notin Saving /\ Party(r) \in Parties /\ Owned(key'[r], Party(r))
  BY <1>1, <1>2, WithResult DEF Saving, Writing, KeyInv
<1>. QED
  BY <1>1, <1>2, <1>3, <1>4, <1>5, <1>6, GoesSaved

LEMMA LoadSaved ==
  ASSUME FrontInv, SavedInv, NEW r \in Requests, Load(r)
  PROVE  SavedInv'
<1>1. PICK k : k \in {NoKey, keyFile[Party(r)].key} /\ key' = [key EXCEPT ![r] = k]
  BY DEF Load, KeyFile
<1>2. /\ at[r] = "read" /\ scenario' = scenario /\ result' = result /\ sigFile' = sigFile
      /\ keyFile' = keyFile /\ troubled' = troubled /\ answer' = answer /\ at' = [at EXCEPT ![r] = "round"]
  BY DEF Load, files
<1>3. ~HasResult(r) /\ at[r] \notin Past /\ Party(r) \in Parties
  BY <1>2, WithResult DEF Past, Saving, Writing, KeyInv
<1>4. Owned(k, Party(r))
  BY <1>1, <1>3 DEF SavedInv, MemoryOK, Owned, NoKey
<1>5. key'[r] = k /\ \A s \in Requests \ {r} : key'[s] = key[s]
  BY <1>1, WithResult DEF SavedInv, MemoryOK
<1>6. MemoryOK'
  BY <1>1, <1>2 DEF SavedInv, MemoryOK, Parties
<1>. QED
  BY <1>2, <1>3, <1>4, <1>5, <1>6, GoesSaved DEF Saving, Writing

LEMMA VerifyFileSaved ==
  ASSUME FrontInv, SavedInv, NEW r \in Requests, VerifyFile(r)
  PROVE  SavedInv'
<1>1. /\ at[r] = "read" /\ scenario' = scenario /\ result' = result /\ sigFile' = sigFile /\ key' = key
      /\ keyFile' = keyFile /\ troubled' = troubled
      /\ \E y : answer' = [answer EXCEPT ![r] = y]
  BY DEF VerifyFile, files
<1>2. PICK x : x \in {"answered", "lost"} /\ at' = [at EXCEPT ![r] = x]
  BY DEF VerifyFile
<1>3. DOMAIN answer' = AllRequests /\ \A s \in Requests \ {r} : answer'[s] = answer[s]
  BY <1>1 DEF SavedInv, MemoryOK
<1>4. ~HasResult(r) /\ at[r] \notin Past
  BY <1>1, WithResult DEF Past, Saving, Writing
<1>5. MemoryOK'
  BY <1>1, <1>3 DEF SavedInv, MemoryOK, Parties
<1>6. x \notin {"open", "read"} \cup Saving /\ Owned(key'[r], Party(r))
  BY <1>1, <1>2, WithResult DEF Saving, Writing, KeyInv
<1>. QED
  BY <1>1, <1>2, <1>3, <1>4, <1>5, <1>6, GoesSaved

LEMMA WriteKeySaved ==
  ASSUME FrontInv, SavedInv, NEW r \in Requests, WriteKey(r)
  PROVE  SavedInv'
<1>1. /\ at[r] = "write" /\ Session(r).kind = "keygen"
      /\ scenario' = scenario /\ result' = result /\ sigFile' = sigFile /\ key' = key /\ troubled' = troubled
      /\ keyFile' = [keyFile EXCEPT ![Party(r)] = [kind |-> "key", key |-> key[r]]]
      /\ at' = [at EXCEPT ![r] = "answered"] /\ answer' = [answer EXCEPT ![r] = "0"]
  BY DEF WriteKey
<1>2. ~HasResult(r) /\ Owned(key[r], Party(r))
  BY <1>1, WithResult DEF KeyInv
<1>3. DOMAIN answer' = AllRequests /\ \A s \in Requests \ {r} : answer'[s] = answer[s]
  BY <1>1 DEF SavedInv, MemoryOK
<1>4. MemoryOK'
  <2>1. ASSUME NEW party \in Parties PROVE Owned(keyFile'[party].key, party)
    BY <1>1, <1>2 DEF SavedInv, MemoryOK
  <2>. QED
    BY <1>1, <1>3, <2>1 DEF SavedInv, MemoryOK, Parties
<1>. QED
  BY <1>1, <1>2, <1>3, <1>4, GoesSaved DEF Past, Saving, Writing

------------------------------------------------------------------------------
(* A signature is made and written.                                          *)

\* r0 saves its signature, and is the only one that does so for its party, or is troubled.
Writes(r0, x) ==
    /\ scenario' = scenario /\ result' = result /\ key' = key /\ keyFile' = keyFile /\ troubled \subseteq troubled'
    /\ at[r0] \in Saving /\ at' = [at EXCEPT ![r0] = x] /\ x \in Writing \cup {"answered"}
    /\ DOMAIN answer' = AllRequests /\ \A r \in Requests \ {r0} : answer'[r] = answer[r]
    /\ DOMAIN sigFile' = Parties
    /\ \A party \in Parties \ {Party(r0)} : sigFile'[party] = sigFile[party]
    /\ \A s \in Rivals(r0) : at[s] \in Writing => s \in troubled'
    /\ HasResult(r0) /\ Session(r0).kind = "sign"
    /\ x = "answered" => answer'[r0] = IF result[r0].valid THEN "0" ELSE "-1"
    /\ FileInv(r0)'

LEMMA WritesSaved ==
  ASSUME FrontInv, SavedInv, NEW r0 \in Requests, NEW x, Writes(r0, x)
  PROVE  SavedInv'
<1>1. /\ Requests' = Requests /\ \A r : Session(r)' = Session(r) /\ Party(r)' = Party(r)
      /\ \A k : Members(k)' = Members(k)
  BY SameRequests DEF Writes, Party, Members
<1>2. \A r : HasResult(r)' <=> HasResult(r)
  BY DEF Writes, HasResult
<1>3. /\ scenario \in Scenarios /\ DOMAIN at = AllRequests /\ \A r \in Requests : r \in AllRequests
  BY RequestsAre DEF FrontInv, TypeOK
<1>4. at'[r0] = x /\ at[r0] \in Saving /\ x \in Past /\ \A r \in Requests : r # r0 => at'[r] = at[r]
  BY <1>3 DEF Writes, Past, Saving
<1>5. MemoryOK'
  BY DEF SavedInv, MemoryOK, Writes, Parties
<1>6. ASSUME NEW r \in Requests PROVE KeyInv(r)'
  <2>1. KeyInv(r) /\ key' = key
    BY DEF SavedInv, Writes
  <2>2. CASE r = r0
    BY <1>1, <1>2, <1>4, <2>1, <2>2 DEF KeyInv, Writes, Parties
  <2>3. CASE r # r0
    BY <1>1, <1>2, <1>4, <2>1, <2>3 DEF KeyInv, Saving, Writing, Parties
  <2>. QED
    BY <2>2, <2>3
<1>7. ASSUME NEW r \in Requests PROVE ResultInv(r)'
  <2>. SUFFICES ASSUME HasResult(r) PROVE ResultInv(r)'
    BY <1>2 DEF ResultInv
  <2>1. /\ Session(r).kind = "sign" /\ Party(r) \in Parties
        /\ \A m \in Members(r[1]) : at[m] \in Past
        /\ SameKeygen(r[1]) /\ ~Disturbed(r[1]) => result[r].valid
        /\ at[r] = "answered" => answer[r] = IF result[r].valid THEN "0" ELSE "-1"
    BY DEF SavedInv, ResultInv
  <2>2. \A m \in Members(r[1])' : at'[m] \in Past
    BY <1>1, <1>3, <1>4, <2>1, MembersAre
  <2>3. SameKeygen(r[1])' <=> SameKeygen(r[1])
    BY <1>1 DEF SameKeygen, Signers, Writes
  <2>4. Disturbed(r[1]) => Disturbed(r[1])'
    BY <1>1 DEF Disturbed, Writes
  <2>5. result' = result
    BY DEF Writes
  <2>6. SameKeygen(r[1])' /\ ~Disturbed(r[1])' => result'[r].valid
    BY <2>1, <2>3, <2>4, <2>5
  <2>7. at'[r] = "answered" => answer'[r] = IF result'[r].valid THEN "0" ELSE "-1"
    <3>1. CASE r = r0
      BY <1>4, <2>5, <3>1 DEF Writes
    <3>2. CASE r # r0
      BY <1>4, <2>1, <2>5, <3>2 DEF Writes
    <3>. QED
      BY <3>1, <3>2
  <2>8. Session(r)'.kind = "sign" /\ Party(r)' \in Parties
    BY <1>1, <2>1
  <2>. QED
    BY <2>2, <2>6, <2>7, <2>8 DEF ResultInv, Parties, Past, Saving, Writing
<1>8. ASSUME NEW r \in Requests PROVE FileInv(r)'
  <2>. SUFFICES ASSUME HasResult(r), r \notin troubled', r # r0 PROVE FileInv(r)'
    BY <1>2 DEF FileInv, Writes
  <2>1. FileInv(r) /\ r \notin troubled /\ at'[r] = at[r] /\ result' = result /\ Party(r) \in Parties
    BY <1>4 DEF SavedInv, ResultInv, Writes
  <2>2. Rivals(r)' = Rivals(r)
    BY <1>1 DEF Rivals
  <2>3. CASE Party(r) # Party(r0)
    <3>1. sigFile'[Party(r)] = sigFile[Party(r)]
      BY <2>1, <2>3 DEF Writes
    <3>2. \A s \in Rivals(r) : at'[s] = at[s]
      BY <1>4, <2>3 DEF Rivals
    <3>. QED
      BY <1>1, <1>2, <2>1, <2>2, <3>1, <3>2 DEF FileInv
  <2>4. CASE Party(r) = Party(r0)
    <3>1. r0 \in Rivals(r) /\ r \in Rivals(r0)
      <4>1. Session(r).kind = "sign"
        BY DEF SavedInv, ResultInv
      <4>. QED
        BY <2>4, <4>1 DEF Rivals, Writes
    <3>2. at[r] \notin Writing /\ at[r] # "write2"
      BY <3>1 DEF Writes, Writing
    <3>3. HasResult(r0)
      BY DEF Writes
    <3>. QED
      BY <1>2, <2>1, <2>2, <3>1, <3>2, <3>3 DEF FileInv, Writing
  <2>. QED
    BY <2>3, <2>4
<1>. QED
  BY <1>1, <1>5, <1>6, <1>7, <1>8 DEF SavedInv

LEMMA SaveSaved ==
  ASSUME FrontInv, SavedInv, NEW r \in Requests, Save(r)
  PROVE  SavedInv'
<1>1. /\ at[r] = "save" /\ at' = [at EXCEPT ![r] = "write"]
      /\ scenario' = scenario /\ result' = result /\ key' = key /\ answer' = answer
      /\ troubled \subseteq troubled'
  BY DEF Save, memory
<1>2. Party(r) \in Parties /\ Owned(key[r], Party(r))
  BY <1>1, WithResult DEF KeyInv, Saving
<1>3. CASE Session(r).kind = "keygen"
  <2>1. keyFile' = [keyFile EXCEPT ![Party(r)] = Empty] /\ sigFile' = sigFile
    BY <1>3 DEF Save
  <2>2. MemoryOK'
    <3>1. ASSUME NEW party \in Parties PROVE Owned(keyFile'[party].key, party)
      BY <2>1 DEF SavedInv, MemoryOK, Owned, Empty, NoKey
    <3>. QED
      BY <1>1, <2>1, <3>1 DEF SavedInv, MemoryOK, Parties
  <2>3. ~HasResult(r)
    BY <1>3, WithResult
  <2>. QED
    BY <1>1, <1>2, <1>3, <2>1, <2>2, <2>3, GoesSaved DEF Past, Saving, Writing
<1>4. CASE Session(r).kind # "keygen"
  <2>1. keyFile' = keyFile /\ sigFile' = [sigFile EXCEPT ![Party(r)] = <<NoSignature, NoSignature>>]
    BY <1>4 DEF Save
  <2>2. HasResult(r) /\ Session(r).kind = "sign"
    BY <1>1, <1>4, WithResult DEF KeyInv, Saving
  <2>3. ASSUME NEW s \in Requests, OpenFile(s) = <<"sig", Party(r)>> PROVE s \in troubled' /\ r \in troubled'
    BY <1>4, <2>3 DEF Save
  <2>4. DOMAIN sigFile' = Parties /\ DOMAIN sigFile'[Party(r)] = 1..2
        /\ \A party \in Parties : party # Party(r) => sigFile'[party] = sigFile[party]
    BY <1>2, <2>1 DEF SavedInv, MemoryOK
  <2>5. ASSUME NEW s \in Rivals(r), at[s] \in Writing PROVE s \in troubled' /\ r \in troubled'
    BY <2>3, <2>5 DEF Rivals, OpenFile, Writing
  <2>6. /\ Rivals(r)' = Rivals(r) /\ Party(r)' = Party(r) /\ at'[r] = "write"
        /\ \A s \in Rivals(r) : at'[s] = at[s]
    BY <1>1, SameRequests, WithResult DEF Rivals, Party
  <2>7. FileInv(r)'
    BY <2>4, <2>5, <2>6 DEF FileInv, Writing
  <2>8. Writes(r, "write")
    BY <1>1, <2>1, <2>2, <2>4, <2>5, <2>7 DEF Writes, Saving, Writing, SavedInv, MemoryOK
  <2>. QED
    BY <2>8, WritesSaved
<1>. QED
  BY <1>3, <1>4

LEMMA WriteSigSaved ==
  ASSUME FrontInv, SavedInv, NEW r \in Requests, WriteSig(r)
  PROVE  SavedInv'
<1>1. /\ at[r] \in Writing /\ Session(r).kind = "sign"
      /\ scenario' = scenario /\ result' = result /\ key' = key /\ keyFile' = keyFile /\ troubled' = troubled
  BY DEF WriteSig
<1>2. /\ Party(r) \in Parties /\ HasResult(r) /\ FileInv(r) /\ at[r] \in Saving /\ r \in AllRequests
      /\ DOMAIN answer = AllRequests /\ DOMAIN at = AllRequests /\ DOMAIN sigFile = Parties
  BY <1>1, WithResult DEF KeyInv, Saving, SavedInv, MemoryOK
<1>3. \A s \in Rivals(r) : at[s] \in Writing => s \in troubled
  <2>. SUFFICES ASSUME NEW s \in Rivals(r), at[s] \in Writing, s \notin troubled PROVE FALSE
    OBVIOUS
  <2>1. s \in Requests /\ r \in Rivals(s) /\ FileInv(s) /\ HasResult(s)
    BY <1>1, WithResult DEF Rivals, KeyInv, Saving, SavedInv
  <2>. QED
    BY <1>1, <2>1 DEF FileInv
<1>4. Rivals(r)' = Rivals(r) /\ Party(r)' = Party(r) /\ (HasResult(r)' <=> HasResult(r))
  BY <1>1, SameRequests DEF Rivals, Party, HasResult
<1>5. CASE at[r] = "write"
  <2>1. /\ sigFile' = [sigFile EXCEPT ![Party(r)][1] = result[r]]
        /\ at' = [at EXCEPT ![r] = "write2"] /\ answer' = answer
    BY <1>5 DEF WriteSig
  <2>2. at'[r] = "write2" /\ \A s \in Rivals(r) : at'[s] = at[s]
    BY <1>2, <2>1, WithResult DEF Rivals
  <2>3. /\ DOMAIN sigFile' = Parties /\ DOMAIN sigFile'[Party(r)] = DOMAIN sigFile[Party(r)]
        /\ (DOMAIN sigFile[Party(r)] = 1..2 => sigFile'[Party(r)][1] = result[r])
        /\ \A party \in Parties \ {Party(r)} : sigFile'[party] = sigFile[party]
    BY <1>2, <2>1
  <2>4. FileInv(r)'
    BY <1>1, <1>2, <1>4, <1>5, <2>2, <2>3 DEF FileInv, Writing
  <2>5. Writes(r, "write2")
    BY <1>1, <1>2, <1>3, <2>1, <2>3, <2>4 DEF Writes, Writing
  <2>. QED
    BY <2>5, WritesSaved
<1>6. CASE at[r] = "write2"
  <2>1. /\ sigFile' = [sigFile EXCEPT ![Party(r)][2] = result[r]]
        /\ at' = [at EXCEPT ![r] = "answered"]
        /\ answer' = [answer EXCEPT ![r] = IF result[r].valid THEN "0" ELSE "-1"]
    BY <1>6 DEF WriteSig
  <2>2. at'[r] = "answered" /\ answer'[r] = (IF result[r].valid THEN "0" ELSE "-1")
        /\ DOMAIN answer' = AllRequests /\ \A s \in Requests \ {r} : answer'[s] = answer[s]
    BY <1>2, <2>1
  <2>3. /\ DOMAIN sigFile' = Parties /\ DOMAIN sigFile'[Party(r)] = DOMAIN sigFile[Party(r)]
        /\ sigFile'[Party(r)][1] = sigFile[Party(r)][1]
        /\ (DOMAIN sigFile[Party(r)] = 1..2 => sigFile'[Party(r)][2] = result[r])
        /\ \A party \in Parties \ {Party(r)} : sigFile'[party] = sigFile[party]
    BY <1>2, <2>1
  <2>4. FileInv(r)'
    BY <1>1, <1>2, <1>4, <1>6, <2>2, <2>3 DEF FileInv, Writing
  <2>5. Writes(r, "answered")
    BY <1>1, <1>2, <1>3, <2>1, <2>2, <2>3, <2>4 DEF Writes, Writing
  <2>. QED
    BY <2>5, WritesSaved
<1>. QED
  BY <1>1, <1>5, <1>6 DEF Writing

\* Keys of one generation are keys.
LEMMA SameKeygenAll ==
  ASSUME NEW k, SameKeygen(k), NEW r \in Signers(k)
  PROVE  key[r].of # -1
BY DEF SameKeygen

\* A round that is not disturbed, of signers with keys of one generation, is good.
LEMMA MeetFacts ==
  ASSUME FrontInv, SavedInv, NEW k \in DOMAIN scenario.sessions, Meet(k)
  PROVE  \E good \in BOOLEAN :
           /\ scenario.sessions[k].kind \in {"keygen", "sign"}
           /\ key' = [r \in AllRequests |->
                         IF scenario.sessions[k].kind = "keygen" /\ r \in Signers(k)
                         THEN KeyOf(IF good THEN k ELSE -1, Party(r), scenario.sessions[k].ports) ELSE key[r]]
           /\ result' = [r \in AllRequests |->
                            IF scenario.sessions[k].kind = "sign" /\ r \in Signers(k)
                            THEN [by |-> r, valid |-> good] ELSE result[r]]
           /\ scenario.sessions[k].kind = "sign" /\ SameKeygen(k) /\ ~Disturbed(k) => good
<1>1. scenario.sessions[k].kind \in {"keygen", "sign"}
  BY FrontEndAssumption DEF Meet, FrontInv, TypeOK
<1>2. PICK spoilt \in IF Disturbed(k) THEN BOOLEAN ELSE {FALSE} :
        LET keygen == scenario.sessions[k].kind = "keygen"
            good == /\ ~spoilt /\ Reaches(k) /\ \A r \in Members(k) : Own(r)
                    /\ keygen \/ (SameKeygen(k) /\ \A r \in Signers(k) : key[r].party = Party(r))
        IN  /\ key' = [r \in AllRequests |->
                          IF keygen /\ r \in Signers(k)
                          THEN KeyOf(IF good THEN k ELSE -1, Party(r), scenario.sessions[k].ports) ELSE key[r]]
            /\ result' = [r \in AllRequests |->
                             IF ~keygen /\ r \in Signers(k) THEN [by |-> r, valid |-> good] ELSE result[r]]
  BY Zenon DEF Meet
<1>3. PICK good \in BOOLEAN :
        good <=> /\ ~spoilt /\ Reaches(k) /\ \A r \in Members(k) : Own(r)
                 /\ \/ scenario.sessions[k].kind = "keygen"
                    \/ SameKeygen(k) /\ \A r \in Signers(k) : key[r].party = Party(r)
  OBVIOUS
<1>4. ASSUME SameKeygen(k), ~Disturbed(k) PROVE good
  <2>1. ~spoilt /\ Reaches(k)
    BY <1>2, <1>4 DEF Meet
  <2>2. ASSUME NEW r \in Members(k) PROVE Own(r)
    <3>1. r \in Requests \ troubled /\ at[r] = "round"
      BY <1>4 DEF Meet, Present, Disturbed, Requests
    <3>. QED
      BY <3>1 DEF FrontInv, Active, Ended, Own, Provided
  <2>3. ASSUME NEW r \in Signers(k) PROVE key[r].party = Party(r)
    <3>1. r \in Requests
      BY DEF Signers, Requests
    <3>2. key[r].of # -1
      BY <1>4, <2>3, SameKeygenAll
    <3>. QED
      BY <3>1, <3>2 DEF SavedInv, KeyInv, Owned
  <2>. QED
    BY <1>3, <1>4, <2>1, <2>2, <2>3
<1>. QED
  BY <1>1, <1>2, <1>3, <1>4

LEMMA MeetSaved ==
  ASSUME FrontInv, SavedInv, NEW k \in DOMAIN scenario.sessions, Meet(k)
  PROVE  SavedInv'
<1>1. PICK good \in BOOLEAN :
           /\ scenario.sessions[k].kind \in {"keygen", "sign"}
           /\ key' = [r \in AllRequests |->
                         IF scenario.sessions[k].kind = "keygen" /\ r \in Signers(k)
                         THEN KeyOf(IF good THEN k ELSE -1, Party(r), scenario.sessions[k].ports) ELSE key[r]]
           /\ result' = [r \in AllRequests |->
                            IF scenario.sessions[k].kind = "sign" /\ r \in Signers(k)
                            THEN [by |-> r, valid |-> good] ELSE result[r]]
           /\ scenario.sessions[k].kind = "sign" /\ SameKeygen(k) /\ ~Disturbed(k) => good
  BY MeetFacts
<1>2. /\ scenario' = scenario /\ keyFile' = keyFile /\ sigFile' = sigFile /\ troubled' = troubled
      /\ answer' = [r \in AllRequests |-> IF r = <<k, 0>> THEN "0" ELSE answer[r]]
      /\ at' = [r \in AllRequests |->
                   IF r \notin Members(k) THEN at[r] ELSE IF IsTTP(r) THEN "answered" ELSE "save"]
      /\ \A r \in Members(k) : at[r] = "round"
  BY DEF Meet, Present, files
<1>3. /\ Requests' = Requests /\ \A r : Session(r)' = Session(r) /\ Party(r)' = Party(r)
      /\ \A j : Members(j)' = Members(j)
  BY <1>2, SameRequests DEF Party, Members
<1>4. scenario \in Scenarios /\ \A r \in Requests : r \in AllRequests
  BY RequestsAre DEF FrontInv, TypeOK
<1>5. ASSUME NEW r \in Members(k)
      PROVE  /\ r \in Requests /\ r[1] = k /\ Session(r) = scenario.sessions[k] /\ ~HasResult(r)
             /\ IsTTP(r) \/ (Party(r) \in Parties /\ r \in Signers(k) /\ r # <<k, 0>> /\ r # <<0, 0>>)
             /\ IsTTP(r) => r = <<k, 0>> /\ r \notin Signers(k)
  <2>1. r \in Requests /\ at[r] = "round"
    BY <1>2 DEF Requests
  <2>2. ~HasResult(r) /\ (IsTTP(r) \/ Party(r) \in Parties)
    BY <2>1, WithResult DEF Past, Saving, Writing
  <2>3. PICK party : r = <<k, party>>
    BY DEF Members
  <2>4. Party(r) = party /\ r[1] = k
    BY <2>3 DEF Party
  <2>. QED
    BY <2>1, <2>2, <2>3, <2>4 DEF IsTTP, Session, Signers, Parties
<1>6. ASSUME NEW r \in Requests, r \notin Members(k)
      PROVE  /\ at'[r] = at[r] /\ key'[r] = key[r] /\ result'[r] = result[r] /\ answer'[r] = answer[r]
             /\ r[1] # k
  <2>1. r[1] # k
    BY <1>4, <1>6, MembersAre
  <2>. QED
    BY <1>1, <1>2, <1>4, <1>6, <2>1 DEF Signers
<1>7. ASSUME NEW r \in Members(k)
      PROVE  /\ at'[r] = IF IsTTP(r) THEN "answered" ELSE "save"
             /\ HasResult(r)' <=> (scenario.sessions[k].kind = "sign" /\ ~IsTTP(r))
             /\ HasResult(r)' => result'[r].valid = good
             /\ Owned(key'[r], Party(r))
  <2>1. r \in AllRequests /\ at'[r] = IF IsTTP(r) THEN "answered" ELSE "save"
    BY <1>2, <1>4, <1>5
  <2>2. result'[r] = IF scenario.sessions[k].kind = "sign" /\ ~IsTTP(r)
                     THEN [by |-> r, valid |-> good] ELSE NoSignature
    BY <1>1, <1>5, <2>1 DEF HasResult
  <2>3. HasResult(r)' <=> (scenario.sessions[k].kind = "sign" /\ ~IsTTP(r))
    BY <1>5, <2>2 DEF HasResult, NoSignature
  <2>4. HasResult(r)' => result'[r].valid = good
    BY <2>2, <2>3
  <2>5. Owned(key'[r], Party(r))
    BY <1>1, <1>5, <2>1 DEF Owned, KeyOf, SavedInv, KeyInv
  <2>. QED
    BY <2>1, <2>3, <2>4, <2>5
<1>8. MemoryOK'
  BY <1>1, <1>2 DEF SavedInv, MemoryOK, Parties
<1>9. ASSUME NEW r \in Requests PROVE KeyInv(r)'
  <2>1. CASE r \in Members(k)
    BY <1>1, <1>3, <1>5, <1>7, <2>1 DEF KeyInv, Saving, Writing, Parties
  <2>2. CASE r \notin Members(k)
    BY <1>3, <1>6, <2>2 DEF SavedInv, KeyInv, HasResult, Saving, Writing, Parties
  <2>. QED
    BY <2>1, <2>2
<1>10. ASSUME NEW r \in Requests, HasResult(r)' PROVE ResultInv(r)'
  <2>1. CASE r \in Members(k)
    <3>1. scenario.sessions[k].kind = "sign" /\ ~IsTTP(r) /\ r[1] = k
      BY <1>5, <1>7, <1>10, <2>1
    <3>2. \A m \in Members(k) : at'[m] \in {"answered", "save"}
      BY <1>7
    <3>3. SameKeygen(k)' => SameKeygen(k)
      <4>1. ASSUME NEW m \in Signers(k) PROVE key'[m] = key[m]
        <5>1. m \in AllRequests
          BY <1>4, <1>5 DEF Signers
        <5>. QED
          BY <1>1, <3>1, <5>1
      <4>. QED
        BY <1>3, <4>1 DEF SameKeygen, Signers
    <3>4. Disturbed(k) => Disturbed(k)'
      BY <1>2, <1>3 DEF Disturbed
    <3>5. SameKeygen(k)' /\ ~Disturbed(k)' => result'[r].valid
      BY <1>1, <1>7, <1>10, <2>1, <3>1, <3>3, <3>4
    <3>6. at'[r] = "save" /\ Session(r)'.kind = "sign" /\ Party(r)' \in Parties
      BY <1>3, <1>5, <1>7, <2>1, <3>1
    <3>. QED
      BY <1>3, <3>1, <3>2, <3>5, <3>6 DEF ResultInv, Past, Saving, Writing, Parties
  <2>2. CASE r \notin Members(k)
    <3>1. /\ Session(r).kind = "sign" /\ Party(r) \in Parties
          /\ \A m \in Members(r[1]) : at[m] \in Past
          /\ SameKeygen(r[1]) /\ ~Disturbed(r[1]) => result[r].valid
          /\ at[r] = "answered" => answer[r] = IF result[r].valid THEN "0" ELSE "-1"
      BY <1>6, <1>10, <2>2 DEF SavedInv, ResultInv, HasResult
    <3>2. ASSUME NEW m \in Members(r[1]) PROVE at'[m] = at[m] /\ key'[m] = key[m]
      BY <1>4, <1>5, <1>6, <2>2, MembersAre
    <3>3. SameKeygen(r[1])' <=> SameKeygen(r[1])
      BY <1>3, <3>2 DEF SameKeygen, Signers
    <3>4. Disturbed(r[1]) => Disturbed(r[1])'
      BY <1>2, <1>3 DEF Disturbed
    <3>5. Session(r)'.kind = "sign" /\ Party(r)' \in Parties
      BY <1>3, <3>1
    <3>6. SameKeygen(r[1])' /\ ~Disturbed(r[1])' => result'[r].valid
      BY <1>6, <2>2, <3>1, <3>3, <3>4
    <3>7. at'[r] = "answered" => answer'[r] = IF result'[r].valid THEN "0" ELSE "-1"
      BY <1>6, <2>2, <3>1
    <3>8. \A m \in Members(r[1])' : at'[m] \in Past
      BY <1>3, <3>1, <3>2
    <3>. QED
      BY <3>5, <3>6, <3>7, <3>8 DEF ResultInv, Past, Saving, Writing, Parties
  <2>. QED
    BY <2>1, <2>2
<1>11. ASSUME NEW r \in Requests, HasResult(r)', r \notin troubled' PROVE FileInv(r)'
  <2>1. Rivals(r)' = Rivals(r)
    BY <1>3 DEF Rivals
  <2>2. CASE r \in Members(k)
    BY <1>7, <1>11, <2>2 DEF FileInv, Writing
  <2>3. CASE r \notin Members(k)
    <3>1. FileInv(r) /\ HasResult(r) /\ r \notin troubled
      BY <1>2, <1>6, <1>11, <2>3 DEF SavedInv, HasResult
    <3>2. ASSUME NEW s \in Rivals(r)
          PROVE  (at[s] \notin Writing => at'[s] \notin Writing) /\ (HasResult(s) => HasResult(s)')
      <4>1. s \in Requests
        BY DEF Rivals
      <4>. QED
        BY <1>5, <1>6, <1>7, <4>1 DEF Writing, HasResult
    <3>. QED
      BY <1>2, <1>3, <1>6, <2>1, <2>3, <3>1, <3>2 DEF FileInv, Writing
  <2>. QED
    BY <2>2, <2>3
<1>. QED
  BY <1>3, <1>8, <1>9, <1>10, <1>11 DEF SavedInv, ResultInv, FileInv

LEMMA EndSaved ==
  ASSUME FrontInv, SavedInv, NEW p, End(p)
  PROVE  SavedInv'
<1>1. /\ scenario' = scenario /\ result' = result /\ key' = key /\ answer' = answer
      /\ keyFile' = keyFile /\ sigFile' = sigFile /\ troubled' = troubled
      /\ \A r \in AllRequests : at'[r] \in {at[r], "lost"}
  BY DEF End, memory, files
<1>2. scenario \in Scenarios /\ \A r \in Requests : r \in AllRequests /\ KeyInv(r)
  BY RequestsAre DEF FrontInv, TypeOK, SavedInv
<1>3. MemoryOK'
  BY <1>1 DEF SavedInv, MemoryOK, Parties
<1>4. Frame
  BY <1>1, <1>2, <1>3 DEF Frame, KeyInv, Past, Saving, Writing
<1>. QED
  BY <1>2, <1>4, FrameSaved

LEMMA InitSaved == Init => SavedInv
<1>. SUFFICES ASSUME Init PROVE SavedInv
  OBVIOUS
<1>1. MemoryOK
  BY DEF Init, MemoryOK, Owned, KeyOf, Missing, NoKey, Parties
<1>2. ASSUME NEW r \in Requests PROVE at[r] = "absent" /\ key[r] = NoKey /\ ~HasResult(r)
  BY RequestsAre DEF Init, HasResult
<1>. QED
  BY <1>1, <1>2 DEF SavedInv, KeyInv, ResultInv, FileInv, Owned, NoKey, Saving, Writing

LEMMA StepSaved ==
  ASSUME FrontInv, SavedInv, [Next]_vars
  PROVE  SavedInv'
<1>1. CASE UNCHANGED vars
  <2>1. Frame
    BY <1>1, WithResult DEF vars, files, memory, Frame, SavedInv, MemoryOK, KeyInv, Parties
  <2>. QED
    BY <2>1, FrameSaved DEF FrontInv, TypeOK
<1>2. ASSUME NEW r \in Requests, Arrive(r) PROVE SavedInv'
  BY <1>2, ArriveSaved
<1>3. ASSUME NEW r \in Requests, Proceed(r) PROVE SavedInv'
  BY <1>3, SetParametersSaved, OpenSaved, LoadSaved, SaveSaved, WriteKeySaved, WriteSigSaved, VerifyFileSaved
     DEF Proceed
<1>4. ASSUME NEW r \in Requests, GiveUp(r) PROVE SavedInv'
  BY <1>4, EndSaved DEF GiveUp
<1>5. ASSUME NEW k \in DOMAIN scenario.sessions, Meet(k) PROVE SavedInv'
  BY <1>5, MeetSaved
<1>6. ASSUME NEW p \in Processes, WorkerTimeout(p) PROVE SavedInv'
  BY <1>6, EndSaved DEF WorkerTimeout
<1>. QED
  BY <1>1, <1>2, <1>3, <1>4, <1>5, <1>6 DEF Next

\* Results come from rounds that all participants have left, and a file has as much of
\* a signature as its request has written.
THEOREM WrittenAsMade == Spec => []SavedInv
  BY InitInv, InitSaved, StepInv, StepSaved, AloneAndProvided, PTL DEF Spec

\* Signers that nobody disturbs, with keys of one generation, get a signature that
\* verifies, and keep it in their files until they sign again.
THEOREM SignatureKept == Spec => []SignatureSaved
<1>1. FrontInv /\ SavedInv => SignatureSaved
  <2>. SUFFICES ASSUME FrontInv, SavedInv, NEW r \in Requests,
                       at[r] = "answered", HasResult(r), SameKeygen(r[1]), ~Disturbed(r[1])
                PROVE  /\ answer[r] = "0"
                       /\ (\A s \in Rivals(r) : ~HasResult(s)) =>
                              Whole(sigFile[Party(r)]) /\ sigFile[Party(r)][1] = result[r]
    BY DEF SignatureSaved, Rivals, HasResult
  <2>1. result[r].valid /\ answer[r] = "0"
    BY DEF SavedInv, ResultInv
  <2>2. r \notin troubled
    BY MembersAre DEF Disturbed, FrontInv, TypeOK
  <2>3. ASSUME \A s \in Rivals(r) : ~HasResult(s)
        PROVE  Whole(sigFile[Party(r)]) /\ sigFile[Party(r)][1] = result[r]
    <3>1. /\ DOMAIN sigFile[Party(r)] = 1..2
          /\ sigFile[Party(r)][1] = result[r] /\ sigFile[Party(r)][2] = result[r]
      BY <2>2, <2>3 DEF SavedInv, FileInv
    <3>2. sigFile[Party(r)] # NoFile
      <4>1. DOMAIN NoFile = {} /\ 1 \in 1..2
        BY DEF NoFile
      <4>. QED
        BY <3>1, <4>1
    <3>. QED
      BY <3>1, <3>2 DEF Whole, HasResult
  <2>. QED
    BY <2>1, <2>3
<1>. QED
  BY <1>1, AloneAndProvided, WrittenAsMade, PTL
==============================================================================
