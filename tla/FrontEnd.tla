------------------------------- MODULE FrontEnd ------------------------------
(***************************************************************************)
(* What people start (TSS/network/Web, keygen, sign, verify): requests for *)
(* a key or for a signature, one for each participant of a session, that   *)
(* meet in a round (NetKeygen, NetSign: one step here) and keep its result *)
(* in files. prime, threshold and barrier belong to the process, not to    *)
(* the request: the processes are workers that serve one request after     *)
(* another (gunicorn), one server that serves all at once (python3 app.py) *)
(* or, from the command line, a process for each request.                  *)
(***************************************************************************)
EXTENDS Integers, Sequences, FiniteSets, SequencesExt

CONSTANTS
    SPX_D,
    Workers,            \* how many the largest server has
    Scenarios           \* what may be asked of the system, see ASSUME

ASSUME FrontEndAssumption ==
    /\ SPX_D \in Nat \ {0} /\ Workers \in Nat \ {0}
    /\ \A sc \in Scenarios :
           /\ sc.deployment \in {"gunicorn", "flask", "cli"}
           /\ sc.workers \in 1..Workers
           /\ \A k \in DOMAIN sc.sessions :
                  LET session == sc.sessions[k]
                  IN  /\ session.kind \in {"keygen", "sign", "verify"}
                      /\ session.n \in Nat /\ session.t \in Nat
                      /\ session.kind = "keygen" => session.n <= SPX_D       \* bound: as many parties
                      /\ session.tid \in Seq(1..SPX_D)
                      /\ Len(session.tid) = session.t         \* app.py:128-130
                      /\ sc.deployment = "cli" => session.t <= session.n /\ session.n <= SPX_D     \* constants

NoProcess == <<0, -1>>
Server == <<0, 0>>
AllRequests == UNION {{<<k, party>> : k \in DOMAIN sc.sessions, party \in 0..SPX_D} : sc \in Scenarios}
Processes == {<<0, w>> : w \in 0..Workers} \cup AllRequests
Parties == 1..SPX_D

VARIABLES
    scenario,           \* deployment, workers, sessions, and whose keys the files hold
    at,                 \* what each request does next
    process,            \* where it runs
    prime, threshold, barrier,      \* the globals of each process
    opened,             \* whether the file that is being read had contents
    key,                \* the key that the request uses or has made
    result,             \* the signature in its memory
    answer,             \* what it has returned
    keyFile, sigFile,   \* for each party
    troubled,           \* requests that an other one may have disturbed
    broken              \* sessions that a participant cannot come to, or was too late for

globals == <<prime, threshold, barrier>>
files == <<keyFile, sigFile>>
memory == <<opened, key, result, answer>>
vars == <<scenario, at, process, globals, memory, files, troubled, broken>>

Session(r) == scenario.sessions[r[1]]
Party(r) == r[2]
Members(k) ==
    LET session == scenario.sessions[k]
    IN  {<<k, party>> : party \in
            CASE session.kind = "keygen" -> 0..session.n
              [] session.kind = "sign"   -> {0} \cup Range(session.tid)
              [] OTHER                   -> Range(session.tid)}
Requests == UNION {Members(k) : k \in DOMAIN scenario.sessions}
IsTTP(r) == Party(r) = 0
Fresh == [k \in 1..SPX_D |-> 0]

\* A key: the session that made it, its owner, and the ports it was made with.
NoKey == [of |-> -1, party |-> 0, ports |-> 0]
Missing == [kind |-> "missing", key |-> NoKey]
Empty == [kind |-> "empty", key |-> NoKey]
KeyOf(k, party, ports) == [of |-> k, party |-> party, ports |-> ports]
NoFile == <<>>
NoSignature == [by |-> <<0, 0>>, valid |-> FALSE]

Init ==
    /\ scenario \in Scenarios
    /\ at = [r \in AllRequests |-> "absent"]
    /\ process = [r \in AllRequests |-> NoProcess]
    /\ prime = [p \in Processes |-> "null"]
    /\ threshold = [p \in Processes |-> Fresh]
    /\ barrier = [p \in Processes |-> 0]
    /\ opened = [r \in AllRequests |-> FALSE]
    /\ key = [r \in AllRequests |-> NoKey]
    /\ result = [r \in AllRequests |-> NoSignature]
    /\ answer = [r \in AllRequests |-> "none"]
    /\ keyFile = [party \in Parties |->
                     IF party \in DOMAIN scenario.keys
                     THEN [kind |-> "key", key |-> KeyOf(scenario.keys[party], party, scenario.ports)]
                     ELSE Missing]
    /\ sigFile = [party \in Parties |-> NoFile]
    /\ troubled = {} /\ broken = {}

Ended == {"absent", "answered", "lost"}
Running(p) == {r \in Requests : process[r] = p /\ at[r] \notin Ended}

------------------------------------------------------------------------------
(* A request enters its process.                                             *)

\* The process that takes a request: of the idle workers any one, among those that
\* are alike the first.
Idle == {p \in {<<0, w>> : w \in 1..scenario.workers} : Running(p) = {}}
Globals(p) == <<prime[p], threshold[p], barrier[p]>>
Takes(p, r) ==
    CASE scenario.deployment = "cli"      -> p = r
      [] scenario.deployment = "flask"    -> p = Server
      [] scenario.deployment = "gunicorn" -> p \in Idle /\ ~\E q \in Idle : q[2] < p[2] /\ Globals(q) = Globals(p)

\* Fault: the TTP's API wants one participant more.
AcceptsTtpFewer(r) ==
    LET n == Session(r).n
        t == Session(r).t
    IN  /\ IF Session(r).kind = "keygen" THEN n <= SPX_D ELSE n <= SPX_D - 1
        /\ t > 0 /\ IF IsTTP(r) THEN t < n - 1 ELSE t < n

\* The parameters that all four APIs accept; the command line's are constants.
Accepts(r) ==
    LET n == Session(r).n
        t == Session(r).t
    IN  /\ IF Session(r).kind = "keygen" THEN n <= SPX_D ELSE n <= SPX_D - 1
        /\ 0 < t /\ t < n

\* The request as the process starts with it, and those running there already.
Enter(r, p) ==
    /\ at[r] = "absent" /\ Takes(p, r)
    /\ process' = [process EXCEPT ![r] = p]
    /\ troubled' = troubled \cup (IF Running(p) = {} THEN {} ELSE Running(p) \cup {r})
    /\ UNCHANGED <<scenario, opened, key, result, files, broken>>

\* Parameters out of range: NULL, which is 0, as after success.
Reject(r, p) ==
    /\ Enter(r, p) /\ scenario.deployment # "cli" /\ ~Accepts(r)
    /\ at' = [at EXCEPT ![r] = "answered"] /\ answer' = [answer EXCEPT ![r] = "NULL"]
    /\ UNCHANGED globals

\* prime = BN_new().
Begin(r, p) ==
    /\ Enter(r, p) /\ scenario.deployment # "cli" /\ Accepts(r)
    /\ at' = [at EXCEPT ![r] = "prime"]
    /\ prime' = [prime EXCEPT ![p] = "zero"]
    /\ UNCHANGED <<threshold, barrier, answer>>

Participants(r) == IF Session(r).kind = "keygen" THEN Session(r).n ELSE Session(r).t

\* What comes after the parameters.
AfterPrime(r) == IF IsTTP(r) \/ Session(r).kind = "keygen" THEN "round" ELSE "open"

\* The command line's init_params, alone in its process.
InitParams(r, p) ==
    /\ Enter(r, p) /\ scenario.deployment = "cli"
    /\ prime' = [prime EXCEPT ![p] = "P"]
    /\ threshold' = [threshold EXCEPT ![p] =
                        [k \in 1..SPX_D |-> IF k <= Session(r).t THEN Session(r).tid[k] ELSE @[k]]]
    /\ barrier' = [barrier EXCEPT ![p] = Participants(r) + (IF IsTTP(r) THEN 1 ELSE 0)]
    /\ at' = [at EXCEPT ![r] = AfterPrime(r)]
    /\ UNCHANGED answer

\* BN_dec2bn(&prime, P); the TTP has the main thread of the round at its barrier, too.
SetParameters(r) ==
    /\ at[r] = "prime"
    /\ prime' = [prime EXCEPT ![process[r]] = "P"]
    /\ barrier' = IF IsTTP(r) THEN [barrier EXCEPT ![process[r]] = Participants(r) + 1] ELSE barrier
    /\ at' = [at EXCEPT ![r] = AfterPrime(r)]
    /\ UNCHANGED <<scenario, process, threshold, memory, files, troubled, broken>>

------------------------------------------------------------------------------
(* The files.                                                                *)

\* Fault: the name is made before party_id has its value.
KeyFileUnset(r) == 1

\* data/Web_party_%d_keygen_res.json
KeyFile(r) == Party(r)

\* The file that a request has open.
Writing == {"write", "write2"}
OpenFile(r) ==
    CASE at[r] = "read"    -> IF Session(r).kind = "verify" THEN <<"sig", Party(r)>> ELSE <<"key", KeyFile(r)>>
      [] at[r] \in Writing -> IF Session(r).kind = "keygen" THEN <<"key", Party(r)>> ELSE <<"sig", Party(r)>>
      [] OTHER             -> <<"none", 0>>

\* fopen, and the size of the file: a signer's key, a signature to verify.
Open(r) ==
    LET verifies == Session(r).kind = "verify"
        file == IF verifies THEN <<"sig", Party(r)>> ELSE <<"key", KeyFile(r)>>
        missing == IF verifies THEN sigFile[Party(r)] = NoFile ELSE keyFile[KeyFile(r)] = Missing
    IN  /\ at[r] = "open"
        /\ at' = [at EXCEPT ![r] = IF missing THEN "answered" ELSE "read"]
        /\ answer' = [answer EXCEPT ![r] = IF missing THEN "1" ELSE @]
        /\ broken' = IF missing THEN broken \cup {r[1]} ELSE broken
        /\ opened' = [opened EXCEPT ![r] = verifies \/ keyFile[KeyFile(r)] # Empty]
        /\ troubled' = IF \E s \in Requests : OpenFile(s) = file /\ at[s] \in Writing
                       THEN troubled \cup {r} ELSE troubled
        /\ UNCHANGED <<scenario, process, globals, key, result, files>>

\* Fault: the last entry is left out.
EntriesFewer(r) == Session(r).t - 1

Entries(r) == Session(r).t

\* fread and json_to_sign_ctx: what cannot be parsed leaves the context as it was;
\* then, but from the command line, threshold[i] = tid[i] for the first t entries.
Load(r) ==
    /\ at[r] = "read" /\ Session(r).kind = "sign"
    /\ key' = [key EXCEPT ![r] = IF opened[r] THEN keyFile[KeyFile(r)].key ELSE NoKey]
    /\ threshold' = IF scenario.deployment = "cli" THEN threshold
                    ELSE [threshold EXCEPT ![process[r]] =
                             [k \in 1..SPX_D |-> IF k <= Entries(r) THEN Session(r).tid[k] ELSE @[k]]]
    /\ at' = [at EXCEPT ![r] = "round"]
    /\ UNCHANGED <<scenario, process, prime, barrier, opened, result, answer, files, troubled, broken>>

\* fopen(filename, "w"), after memmove has put the message behind the signature.
Save(r) ==
    LET keygen == Session(r).kind = "keygen"
        users == {s \in Requests : OpenFile(s) = <<IF keygen THEN "key" ELSE "sig", Party(r)>>}
    IN  /\ at[r] = "save"
        /\ at' = [at EXCEPT ![r] = "write"]
        /\ IF keygen THEN keyFile' = [keyFile EXCEPT ![Party(r)] = Empty] /\ UNCHANGED sigFile
           ELSE sigFile' = [sigFile EXCEPT ![Party(r)] = <<NoSignature, NoSignature>>] /\ UNCHANGED keyFile
        /\ troubled' = IF users = {} THEN troubled ELSE troubled \cup users \cup {r}
        /\ UNCHANGED <<scenario, process, globals, memory, broken>>

\* A key is written at once, by fclose.
WriteKey(r) ==
    /\ at[r] = "write" /\ Session(r).kind = "keygen"
    /\ keyFile' = [keyFile EXCEPT ![Party(r)] = [kind |-> "key", key |-> key[r]]]
    /\ at' = [at EXCEPT ![r] = "answered"] /\ answer' = [answer EXCEPT ![r] = "0"]
    /\ UNCHANGED <<scenario, process, globals, opened, key, result, sigFile, troubled, broken>>

\* A signature has several buffers of stdio's, here two, each at its own place; the
\* signer then verifies what it has in memory.
WriteSig(r) ==
    /\ at[r] \in Writing /\ Session(r).kind = "sign"
    /\ IF at[r] = "write"
       THEN /\ sigFile' = [sigFile EXCEPT ![Party(r)][1] = result[r]]
            /\ at' = [at EXCEPT ![r] = "write2"] /\ UNCHANGED answer
       ELSE /\ sigFile' = [sigFile EXCEPT ![Party(r)][2] = result[r]]
            /\ at' = [at EXCEPT ![r] = "answered"]
            /\ answer' = [answer EXCEPT ![r] = IF result[r].valid THEN "0" ELSE "-1"]
    /\ UNCHANGED <<scenario, process, globals, opened, key, result, keyFile, troubled, broken>>

Whole(file) == file # NoFile /\ file[1] = file[2] /\ file[1] # NoSignature

\* load_sm and the verification of ./verify; without a signature to print it dies.
VerifyFile(r) ==
    /\ at[r] = "read" /\ Session(r).kind = "verify"
    /\ LET file == sigFile[Party(r)]
       IN  /\ answer' = [answer EXCEPT ![r] = IF Whole(file) /\ file[1].valid THEN "0" ELSE "-1"]
           /\ at' = [at EXCEPT ![r] = IF Whole(file) THEN "answered" ELSE "lost"]
           /\ broken' = IF Whole(file) THEN broken ELSE broken \cup {r[1]}
    /\ UNCHANGED <<scenario, process, globals, opened, key, result, files, troubled>>

------------------------------------------------------------------------------
(* The rounds.                                                               *)

Signers(k) == Members(k) \ {<<k, 0>>}
Present(k) == \A r \in Members(k) : at[r] = "round"

\* The participant to whom the first signer sends its root: threshold[1], which for
\* t = 1 is none of the session's, but 0, the TTP, in a new process.
Successor(k) ==
    LET session == scenario.sessions[k]
    IN  threshold[process[<<k, session.tid[1]>>]][2] = IF session.t = 1 THEN 0 ELSE session.tid[2]

\* Whether everyone is where the others look: a signer listens at the port of its
\* key file, the others dial the request's.
Reaches(k) ==
    LET session == scenario.sessions[k]
    IN  session.kind = "sign" =>
            /\ Successor(k)
            /\ \A r \in Signers(k) :
                   key[r] # NoKey /\ (Party(r) # session.tid[1] => key[r].ports = session.ports)

\* An other request is or was in the process or at the files of a participant, or
\* ip_[n] and port_[n] are outside their arrays of SPX_D entries: what comes of it
\* is undefined.
Disturbed(k) == Members(k) \cap troubled # {} \/ scenario.sessions[k].n >= SPX_D

SameKeygen(k) == \E r \in Signers(k) : key[r].of # -1 /\ \A s \in Signers(k) : key[s].of = key[r].of

\* The globals are the request's.
Own(r) ==
    /\ prime[process[r]] = "P"
    /\ IsTTP(r) => barrier[process[r]] = Participants(r) + 1
    /\ (Session(r).kind = "sign" /\ ~IsTTP(r)) =>
           \A k \in 1..Session(r).t : threshold[process[r]][k] = Session(r).tid[k]

\* The round: all get what it makes, spoilt perhaps if somebody was disturbed.
Meet(k) ==
    LET members == Members(k)
        keygen == scenario.sessions[k].kind = "keygen"
    IN  /\ Present(k) /\ scenario.sessions[k].kind # "verify"
        /\ Reaches(k) \/ Disturbed(k)
        /\ \E spoilt \in IF Disturbed(k) THEN BOOLEAN ELSE {FALSE} :
               LET good == /\ ~spoilt /\ Reaches(k) /\ \A r \in members : Own(r)
                           /\ keygen \/ (SameKeygen(k) /\ \A r \in Signers(k) : key[r].party = Party(r))
               IN  /\ key' = [r \in AllRequests |->
                                 IF keygen /\ r \in Signers(k)
                                 THEN KeyOf(IF good THEN k ELSE -1, Party(r), scenario.sessions[k].ports)
                                 ELSE key[r]]
                   /\ result' = [r \in AllRequests |->
                                    IF ~keygen /\ r \in Signers(k) THEN [by |-> r, valid |-> good] ELSE result[r]]
        /\ at' = [r \in AllRequests |->
                     IF r \notin members THEN at[r] ELSE IF IsTTP(r) THEN "answered" ELSE "save"]
        /\ answer' = [r \in AllRequests |-> IF r = <<k, 0>> THEN "0" ELSE answer[r]]
        /\ UNCHANGED <<scenario, process, globals, opened, files, troubled, broken>>

\* The process ends. A new worker comes in its place, but no new server. A session
\* from which somebody was turned away is not broken by that.
End(p) ==
    /\ at' = [r \in AllRequests |->
                 IF r \in Running(p) \/ (p = Server /\ r \in Requests /\ at[r] = "absent") THEN "lost" ELSE at[r]]
    /\ prime' = [prime EXCEPT ![p] = "null"]
    /\ threshold' = [threshold EXCEPT ![p] = Fresh]
    /\ barrier' = [barrier EXCEPT ![p] = 0]
    /\ broken' = broken \cup
           {r[1] : r \in {s \in Running(p) : ~\E m \in Members(s[1]) : answer[m] = "NULL"}}
    /\ UNCHANGED <<scenario, process, memory, files, troubled>>

\* exit(EXIT_FAILURE): the retries are used up and the other side is not there.
GiveUp(r) ==
    /\ at[r] = "round" /\ ~IsTTP(r)
    /\ ~(Present(r[1]) /\ Reaches(r[1])) \/ Disturbed(r[1])
    /\ End(process[r])

\* gunicorn ends workers that take too long; here when they wait or write, and only
\* as the first thing that goes wrong (bound).
WorkerTimeout(p) ==
    /\ scenario.deployment = "gunicorn" /\ broken = {}
    /\ \E r \in Running(p) : at[r] = "round" \/ at[r] \in Writing
    /\ End(p)

Arrive(r) ==
    /\ at[r] = "absent"
    /\ \E p \in {r} \cup {<<0, w>> : w \in 0..scenario.workers} :
           Reject(r, p) \/ Begin(r, p) \/ InitParams(r, p)

Proceed(r) ==
    \/ SetParameters(r) \/ Open(r) \/ Load(r) \/ Save(r) \/ WriteKey(r) \/ WriteSig(r) \/ VerifyFile(r)

Next ==
    \/ \E r \in Requests : Arrive(r) \/ Proceed(r) \/ GiveUp(r)
    \/ \E k \in DOMAIN scenario.sessions : Meet(k)
    \/ \E p \in Processes : WorkerTimeout(p)

Spec == Init /\ [][Next]_vars
\* Nothing stops as long as anybody can do a step: each is a processor's, one of
\* the bounded retries, or the end of a worker's time.
FairSpec == Spec /\ WF_vars(Next)

------------------------------------------------------------------------------
\* In its round a request finds its own prime, threshold and barrier, whatever
\* requests its process has served before (Web_api.c:51-53, 114, 150-166, 209-214),
\* unless an other request has been in the process with it. The globals are not
\* cleared between requests and only the first t entries of threshold are written.
OwnParameters == \A r \in Requests \ troubled : at[r] = "round" => Own(r)

\* Signers that none disturbs, and whose key files stem from one key generation,
\* get a signature that verifies, and it is in their files until the next request for
\* one saves its own (Web_api.c:170-195, Json.c:99-143).
SignatureSaved ==
    \A r \in Requests :
        LET file == sigFile[Party(r)]
            later == {s \in Requests \ {r} : /\ Session(s).kind = "sign" /\ Party(s) = Party(r)
                                             /\ result[s] # NoSignature}
        IN  ( /\ Session(r).kind = "sign" /\ at[r] = "answered" /\ result[r] # NoSignature
              /\ SameKeygen(r[1]) /\ ~Disturbed(r[1]) )
            => /\ answer[r] = "0"
               /\ later = {} => Whole(file) /\ file[1] = result[r]

\* All requests are answered, or a session is broken: somebody came too late, has no
\* key file or is not where the others dial. A session whose parameters are
\* refused is refused to all its participants, so that none waits for one that was
\* turned away (Web_api.c:28-36, 82-90, 131-139, 200-208).
RequestsAnswered == <>(broken # {} \/ \A r \in Requests : at[r] = "answered")
==============================================================================
