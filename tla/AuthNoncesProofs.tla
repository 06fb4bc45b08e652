-------------------------- MODULE AuthNoncesProofs --------------------------
(***************************************************************************)
(* Proofs about the nonce login of auth_api, for every set of wallets and  *)
(* every bound on the nonces handed out.                                   *)
(*                                                                         *)
(*   AuthTypeCorrect   Spec => []TypeOK                                    *)
(*   ReplaySafety      Spec => []NoReplay                                  *)
(*                                                                         *)
(* NoReplay is not inductive: a second JWT for a signature is ruled out    *)
(* only because the nonce it signed is no longer pending for its address.  *)
(* That needs two facts: verify removed it (Consumed), and get_nonce never *)
(* hands out a UUID again, since every pending or consumed nonce is at     *)
(* most the count of nonces issued (Fresh).                                *)
(***************************************************************************)
EXTENDS AuthNonces, TLAPS

\* Every pending nonce has been issued.
Fresh == \A a \in Addresses : nonces[a] <= issued

\* A signature that got a JWT signed an issued nonce that is no longer
\* pending for its address.
Consumed ==
    \A s \in Signatures :
        tokens[s] > 0 => s.nonce <= issued /\ nonces[s.addr] # s.nonce

IInv == TypeOK /\ Fresh /\ Consumed /\ NoReplay

USE AuthAssumption

-----------------------------------------------------------------------------
(* What one verify does.                                                   *)

\* verify removes the address's nonce, and a JWT counted for a signature
\* is counted for the posted one, whose message and key match the removed
\* nonce and the address.
LEMMA VerifyEffect ==
    ASSUME TypeOK, NEW a \in Addresses, NEW s \in Signatures, Verify(a, s)
    PROVE  /\ nonces' = [nonces EXCEPT ![a] = NoNonce]
           /\ tokens' \in [Signatures -> 0..2]
           /\ \A t \in Signatures :
                 tokens'[t] # tokens[t] =>
                    /\ t = s /\ tokens[t] = 0 => tokens'[t] = 1
                    /\ t = s /\ s.addr = a /\ s.signer = a
                    /\ nonces[a] = s.nonce /\ nonces[a] # NoNonce
<1> DEFINE ok == nonces[a] # NoNonce /\ s.addr = a /\ s.nonce = nonces[a] /\ s.signer = a
<1>1. nonces' = [nonces EXCEPT ![a] = NoNonce]
    BY DEF Verify
<1>2. CASE ok
    <2>1. tokens' = [tokens EXCEPT ![s] = IF @ < 2 THEN @ + 1 ELSE 2]
        BY <1>2 DEF Verify
    <2> QED
        BY <1>1, <1>2, <2>1 DEF TypeOK
<1>3. CASE ~ok
    <2>1. tokens' = tokens
        BY <1>3 DEF Verify
    <2> QED
        BY <1>1, <2>1 DEF TypeOK
<1> QED
    BY <1>2, <1>3

-----------------------------------------------------------------------------
(* Type correctness.                                                       *)

LEMMA AuthTypeStep == TypeOK /\ [Next]_vars => TypeOK'
<1> SUFFICES ASSUME TypeOK, [Next]_vars PROVE TypeOK'
    OBVIOUS
<1>1. ASSUME NEW a \in Honest, HonestLogin(a) PROVE TypeOK'
    BY <1>1 DEF HonestLogin, IssueNonce, TypeOK, NonceIds, NoNonce, Addresses
<1>2. ASSUME NEW a \in Honest, HonestVerify(a) PROVE TypeOK'
    <2> DEFINE s == [signer |-> a, addr |-> a, nonce |-> wallet[a]]
    <2>1. s \in Signatures
        BY <1>2 DEF HonestVerify, TypeOK, Signatures, Addresses, NonceIds, NoNonce
    <2>2. Verify(a, s) /\ signed' = signed \cup {s}
        BY <1>2 DEF HonestVerify
    <2>3. nonces' \in [Addresses -> NonceIds \cup {NoNonce}] /\ tokens' \in [Signatures -> 0..2]
        BY <2>1, <2>2, VerifyEffect DEF TypeOK, Addresses
    <2> QED
        BY <1>2, <2>1, <2>2, <2>3 DEF HonestVerify, TypeOK
<1>3. ASSUME NEW a \in Addresses, OtherNonce(a) PROVE TypeOK'
    BY <1>3 DEF OtherNonce, IssueNonce, TypeOK, NonceIds, NoNonce
<1>4. ASSUME NEW a \in Addresses, NEW s \in Signatures, AttackerVerify(a, s) PROVE TypeOK'
    <2>1. nonces' \in [Addresses -> NonceIds \cup {NoNonce}] /\ tokens' \in [Signatures -> 0..2]
        BY <1>4, VerifyEffect DEF AttackerVerify, TypeOK
    <2> QED
        BY <1>4, <2>1 DEF AttackerVerify, TypeOK
<1>5. CASE UNCHANGED vars
    BY <1>5 DEF vars, TypeOK
<1> QED
    BY <1>1, <1>2, <1>3, <1>4, <1>5 DEF Next

\* Every reachable state of the login service is well typed.
THEOREM AuthTypeCorrect == Spec => []TypeOK
<1>1. Init => TypeOK
    BY DEF Init, TypeOK, NoNonce, NonceIds
<1> QED
    BY <1>1, AuthTypeStep, PTL DEF Spec

-----------------------------------------------------------------------------
(* The inductive invariant.                                                *)

LEMMA IInvInit == Init => IInv
BY DEF Init, IInv, TypeOK, Fresh, Consumed, NoReplay, NoNonce, NonceIds

\* A get_nonce step (honest or not): the new UUID is above every nonce a
\* JWT was counted for, and no JWT changes.
LEMMA IssueStep ==
    ASSUME IInv, NEW a \in Addresses, IssueNonce(a), UNCHANGED tokens
    PROVE  Fresh' /\ Consumed'
<1>1. Fresh'
    BY DEF IInv, TypeOK, Fresh, IssueNonce, NoNonce, NonceIds
<1>2. Consumed'
    BY DEF IInv, TypeOK, Fresh, Consumed, IssueNonce, Signatures, NonceIds
<1> QED
    BY <1>1, <1>2

\* A verify step: the nonce it consumes was pending, so a signature that
\* gets its first JWT had none before and its nonce is now gone.
LEMMA VerifyStep ==
    ASSUME IInv, NEW a \in Addresses, NEW s \in Signatures, Verify(a, s),
           UNCHANGED issued
    PROVE  Fresh' /\ Consumed' /\ NoReplay'
<1>1. /\ nonces' = [nonces EXCEPT ![a] = NoNonce]
      /\ tokens' \in [Signatures -> 0..2]
      /\ \A t \in Signatures :
            tokens'[t] # tokens[t] =>
               /\ t = s /\ tokens[t] = 0 => tokens'[t] = 1
               /\ t = s /\ s.addr = a /\ s.signer = a
               /\ nonces[a] = s.nonce /\ nonces[a] # NoNonce
    BY VerifyEffect DEF IInv
<1>2. Fresh'
    BY <1>1 DEF IInv, TypeOK, Fresh, NoNonce, NonceIds
<1>3. ASSUME NEW t \in Signatures, tokens'[t] # tokens[t]
      PROVE  tokens[t] = 0 /\ tokens'[t] = 1 /\ t.addr = a /\ t.signer = a
             /\ t.nonce <= issued
    <2>1. t = s /\ s.addr = a /\ s.signer = a /\ nonces[a] = s.nonce /\ nonces[a] # NoNonce
        BY <1>1, <1>3
    <2>2. tokens[t] = 0
        BY <2>1 DEF IInv, Consumed, TypeOK
    <2>3. t.nonce <= issued
        BY <2>1 DEF IInv, Fresh, TypeOK
    <2>4. tokens'[t] = 1
        <3>1. t = s /\ tokens[t] = 0 => tokens'[t] = 1
            BY <1>1, <1>3
        <3> QED
            BY <3>1, <2>1, <2>2
    <2> QED
        BY <2>1, <2>2, <2>3, <2>4
<1>4. Consumed'
    BY <1>1, <1>3 DEF IInv, TypeOK, Consumed, Signatures, NoNonce, NonceIds
<1>5. NoReplay'
    BY <1>1, <1>3 DEF IInv, TypeOK, NoReplay
<1> QED
    BY <1>2, <1>4, <1>5

LEMMA IInvStep == IInv /\ [Next]_vars => IInv'
<1> SUFFICES ASSUME IInv, [Next]_vars PROVE IInv'
    OBVIOUS
<1>0. TypeOK'
    BY AuthTypeStep DEF IInv
<1>1. ASSUME NEW a \in Honest, HonestLogin(a) PROVE IInv'
    <2>1. Fresh' /\ Consumed'
        BY <1>1, IssueStep DEF HonestLogin, Addresses
    <2> QED
        BY <1>0, <1>1, <2>1 DEF HonestLogin, IInv, NoReplay
<1>2. ASSUME NEW a \in Honest, HonestVerify(a) PROVE IInv'
    <2> DEFINE s == [signer |-> a, addr |-> a, nonce |-> wallet[a]]
    <2>1. s \in Signatures /\ Verify(a, s) /\ UNCHANGED issued
        BY <1>2 DEF HonestVerify, IInv, TypeOK, Signatures, Addresses, NonceIds, NoNonce
    <2> QED
        BY <1>0, <2>1, VerifyStep DEF IInv, Addresses
<1>3. ASSUME NEW a \in Addresses, OtherNonce(a) PROVE IInv'
    <2>1. Fresh' /\ Consumed'
        BY <1>3, IssueStep DEF OtherNonce
    <2> QED
        BY <1>0, <1>3, <2>1 DEF OtherNonce, IInv, NoReplay
<1>4. ASSUME NEW a \in Addresses, NEW s \in Signatures, AttackerVerify(a, s) PROVE IInv'
    BY <1>0, <1>4, VerifyStep DEF AttackerVerify, IInv
<1>5. CASE UNCHANGED vars
    BY <1>5 DEF vars, IInv, TypeOK, Fresh, Consumed, NoReplay
<1> QED
    BY <1>1, <1>2, <1>3, <1>4, <1>5 DEF Next

\* verify hands out at most one JWT per signed login message: a repost of
\* a signature, by its wallet or by anyone who saw it, is refused.
THEOREM ReplaySafety == Spec => []NoReplay
<1>1. IInv => NoReplay
    BY DEF IInv
<1> QED
    BY IInvInit, IInvStep, <1>1, PTL DEF Spec

=============================================================================
