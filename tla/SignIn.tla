------------------------------- MODULE SignIn -------------------------------
(***************************************************************************)
(* What the vault promises about one person's way in, each of its steps    *)
(* taken at once: a session is opened with a password or a passkey that    *)
(* holds at that moment, never while the sign-in is locked; a change of    *)
(* the password leaves the session that made it and no other; a reset, a   *)
(* stopped password and a lock leave none.                                 *)
(***************************************************************************)
EXTENDS Naturals

CONSTANT Sessions

VARIABLES
  password,   \* the password's number, 0 for none
  passkeys,   \* the passkeys' numbers
  locked,
  sessions    \* what each session that goes on rests on

vars == <<password, passkeys, locked, sessions>>

Nothing == <<"none", 0>>
Valid == {<<"password", n>> : n \in {password} \ {0}} \union {<<"passkey", k>> : k \in passkeys}

AllEnd == sessions' = [s \in Sessions |-> Nothing]

Init ==
  /\ password = 1
  /\ passkeys = {}
  /\ locked = FALSE
  /\ sessions = [s \in Sessions |-> Nothing]

Open(s) ==
  /\ ~locked
  /\ sessions[s] = Nothing
  /\ \E proof \in Valid : sessions' = [sessions EXCEPT ![s] = proof]
  /\ UNCHANGED <<password, passkeys, locked>>

\* A passkey goes on opening what it opened; the old password does not.
Change(s) ==
  /\ sessions[s] # Nothing
  /\ password' \in Nat \ {0, password}
  /\ \E proof \in {sessions[s], <<"password", password'>>} :
       /\ proof # <<"password", password>>
       /\ sessions' = [t \in Sessions |-> IF t = s THEN proof ELSE Nothing]
  /\ passkeys' \subseteq passkeys
  /\ UNCHANGED locked

Reset ==
  /\ password' \in Nat \ {0, password}
  /\ passkeys' = {}
  /\ AllEnd
  /\ UNCHANGED locked

Stop == password' = 0 /\ AllEnd /\ UNCHANGED <<passkeys, locked>>

Lock == ~locked /\ locked' = TRUE /\ AllEnd /\ UNCHANGED <<password, passkeys>>
Unlock == locked /\ locked' = FALSE /\ UNCHANGED <<password, passkeys, sessions>>

SignOut ==
  /\ UNCHANGED <<password, passkeys, locked>>
  /\ \E S \in SUBSET Sessions :
       sessions' = [s \in Sessions |-> IF s \in S THEN Nothing ELSE sessions[s]]

AddPasskey(n) ==
  /\ passkeys' = passkeys \union {n}
  /\ UNCHANGED <<password, locked, sessions>>

RemovePasskey(n) ==
  /\ passkeys' = passkeys \ {n}
  /\ UNCHANGED <<password, locked, sessions>>

Next ==
  \/ SignOut
  \/ \E n \in passkeys' : AddPasskey(n)
  \/ \E n \in passkeys : RemovePasskey(n)
  \/ Reset
  \/ Stop
  \/ Lock
  \/ Unlock
  \/ \E s \in Sessions : Open(s) \/ Change(s)

Spec == Init /\ [][Next]_vars
=============================================================================
