------------------------------ MODULE MCFrontEnd -----------------------------
(* Up to four participants, three workers, and two or three sessions.         *)
EXTENDS FrontEnd

Keygen(n, t) == [kind |-> "keygen", n |-> n, t |-> t, tid |-> [k \in 1..t |-> k], ports |-> 1]
Sign(n, tid, ports) == [kind |-> "sign", n |-> n, t |-> Len(tid), tid |-> tid, ports |-> ports]
VerifyOf(party) == [kind |-> "verify", n |-> 3, t |-> 1, tid |-> <<party>>, ports |-> 1]

Web(deployment, workers, sessions, keys) ==
    [deployment |-> deployment, workers |-> workers, sessions |-> sessions, keys |-> keys, ports |-> 1]

MCScenarios ==
    {   \* One signer and two, in the same workers.
        Web("gunicorn", 3, <<Sign(3, <<2, 1>>, 1), Sign(3, <<3>>, 1)>>, <<0, 0, 0>>),
        \* A key, and a signature with it or the one before.
        Web("gunicorn", 3, <<Keygen(2, 1), Sign(2, <<2>>, 1)>>, <<0, 0>>),
        \* Two workers for three participants.
        Web("gunicorn", 2, <<Sign(3, <<1, 2>>, 1)>>, <<0, 0>>),
        \* All at once in one process, too many players, and ports that have changed.
        Web("flask", 1, <<Sign(3, <<1, 3>>, 1), Sign(3, <<2>>, 1)>>, <<0, 0, 0>>),
        Web("flask", 1, <<Keygen(4, 3)>>, <<>>),
        Web("flask", 1, <<Sign(4, <<1, 2>>, 1), Sign(3, <<1, 2>>, 2)>>, <<0, 0>>),
        \* Keys of two generations, no keys, and a signature verified.
        Web("cli", 1, <<Sign(3, <<1, 2>>, 1)>>, <<0, 7>>),
        Web("cli", 1, <<Keygen(2, 1), Sign(2, <<1>>, 1), VerifyOf(1)>>, <<>>)
    }
==============================================================================
