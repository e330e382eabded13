--------------------------- MODULE SigningRequest ---------------------------
(***************************************************************************)
(* What the app promises about a signing request, without the screen, the  *)
(* status words and the sequence numbers: a request is opened for a path,  *)
(* is built from its chunks in order, is submitted whole, and is signed at *)
(* most once, as it was submitted and with the path it was opened for.     *)
(***************************************************************************)
EXTENDS Naturals, Sequences

CONSTANTS Chunks, Paths, NoPath, MaxPackets,
          Delegated  \* the consent was given before, in another app

VARIABLES phase, path, chunks, signatures

requestVars == <<phase, path, chunks, signatures>>

Init ==
    /\ phase = "closed"
    /\ path = NoPath
    /\ chunks = <<>>
    /\ signatures = <<>>

\* A new request replaces the one under way.
Open(p) ==
    /\ phase' = "open"
    /\ path' = p
    /\ chunks' = <<>>
    /\ signatures' = <<>>

Extend(c) ==
    /\ phase = "open"
    /\ Len(chunks) < MaxPackets
    /\ chunks' = Append(chunks, c)

Add(c) ==
    /\ Extend(c)
    /\ UNCHANGED <<phase, path, signatures>>

\* The last chunk: the request goes to the user.
Submit(c) ==
    /\ ~Delegated
    /\ Extend(c)
    /\ phase' = "review"
    /\ UNCHANGED <<path, signatures>>

Closed ==
    /\ phase' = "closed"
    /\ path' = NoPath
    /\ chunks' = <<>>

\* The user approves.
Sign ==
    /\ phase = "review"
    /\ signatures' = Append(signatures, [path |-> path, content |-> chunks])
    /\ Closed

\* The last chunk, when the consent was given before
SignDelegated(c) ==
    /\ Delegated
    /\ phase = "open"
    /\ Len(chunks) < MaxPackets
    /\ signatures' = Append(signatures,
                            [path |-> path, content |-> Append(chunks, c)])
    /\ Closed

\* The user refuses, or the signature fails: the request is open again.
Reopen ==
    /\ phase = "review"
    /\ phase' = "open"
    /\ UNCHANGED <<path, chunks, signatures>>

\* The request is given up: bad data, another command, the end of the app.
Drop ==
    /\ Closed
    /\ signatures' \in {signatures, <<>>}

Next ==
    \/ \E p \in Paths : Open(p)
    \/ \E c \in Chunks : Add(c) \/ Submit(c) \/ SignDelegated(c)
    \/ Sign
    \/ Reopen
    \/ Drop

Spec == Init /\ [][Next]_requestVars
=============================================================================
