----------------------------- MODULE AuthNonces -----------------------------
(***************************************************************************)
(* Wallet login of auth_api (src/rust/auth_api/src/main.rs).  The server   *)
(* keeps one pending nonce per lower-cased address, in a Mutex<HashMap>:   *)
(*                                                                         *)
(*   GET  /nonce   a fresh UUID, inserted for the address (overwriting);   *)
(*   POST /verify  remove the address's nonce (NO_NONCE if none), rebuild  *)
(*                 the message, recover the signer; a JWT if it is the     *)
(*                 address, ADDR_MISMATCH otherwise.                       *)
(*                                                                         *)
(* A signature is the record of who signed which (address, nonce) message; *)
(* recovering it against another message yields some other address.       *)
(* Honest wallets sign only the nonce they were just given; the attacker   *)
(* signs anything with its own key and reposts every signature an honest  *)
(* wallet has posted.                                                      *)
(***************************************************************************)
EXTENDS Naturals

CONSTANTS
    Honest,     \* addresses whose key only their wallet holds
    Attacker,   \* the attacker's address (and key)
    MaxNonces   \* bound on the UUIDs /nonce hands out

Addresses == Honest \cup {Attacker}
NonceIds == 1..MaxNonces
NoNonce == 0

ASSUME AuthAssumption ==
    /\ Attacker \notin Honest /\ Honest # {}
    /\ MaxNonces \in Nat

Signatures == [signer : Addresses, addr : Addresses, nonce : NonceIds]

VARIABLES
    nonces,    \* nonces[a]: the pending nonce of address a, or NoNonce
    issued,    \* UUIDs handed out so far (they are never repeated)
    wallet,    \* wallet[a]: the nonce honest wallet a last received, or NoNonce
    signed,    \* signatures honest wallets have posted (the attacker sees them)
    tokens     \* tokens[s]: JWTs /verify issued for signature s, counted to 2

vars == <<nonces, issued, wallet, signed, tokens>>

TypeOK ==
    /\ nonces \in [Addresses -> NonceIds \cup {NoNonce}]
    /\ issued \in 0..MaxNonces
    /\ wallet \in [Honest -> NonceIds \cup {NoNonce}]
    /\ signed \subseteq Signatures
    /\ tokens \in [Signatures -> 0..2]

Init ==
    /\ nonces = [a \in Addresses |-> NoNonce]
    /\ issued = 0
    /\ wallet = [a \in Honest |-> NoNonce]
    /\ signed = {}
    /\ tokens = [s \in Signatures |-> 0]

\* get_nonce: a new UUID, inserted under the address.
IssueNonce(a) ==
    /\ issued < MaxNonces
    /\ issued' = issued + 1
    /\ nonces' = [nonces EXCEPT ![a] = issued + 1]

\* An honest wallet asks for a nonce (and signs the message it gets).
HonestLogin(a) ==
    /\ a \in Honest
    /\ IssueNonce(a)
    /\ wallet' = [wallet EXCEPT ![a] = issued + 1]
    /\ UNCHANGED <<signed, tokens>>

\* Anyone asks for a nonce for any address: the pending one is replaced.
OtherNonce(a) ==
    /\ IssueNonce(a)
    /\ UNCHANGED <<wallet, signed, tokens>>

\* Mutant: verify reads the nonce with get, leaving it in the map.
VerifyKeepNonce(a, s) ==
    LET n == nonces[a] IN
    /\ UNCHANGED nonces
    /\ IF n # NoNonce /\ s.addr = a /\ s.nonce = n /\ s.signer = a
       THEN tokens' = [tokens EXCEPT ![s] = IF @ < 2 THEN @ + 1 ELSE 2]
       ELSE UNCHANGED tokens

\* verify: the removal under the lock, then the signer recovered against
\* the message of the removed nonce, compared with the address.
Verify(a, s) ==
    LET n == nonces[a] IN
    /\ nonces' = [nonces EXCEPT ![a] = NoNonce]
    /\ IF n # NoNonce /\ s.addr = a /\ s.nonce = n /\ s.signer = a
       THEN tokens' = [tokens EXCEPT ![s] = IF @ < 2 THEN @ + 1 ELSE 2]
       ELSE UNCHANGED tokens

\* An honest wallet posts the signature of the nonce it holds.
HonestVerify(a) ==
    /\ a \in Honest
    /\ wallet[a] # NoNonce
    /\ LET s == [signer |-> a, addr |-> a, nonce |-> wallet[a]] IN
         /\ Verify(a, s)
         /\ signed' = signed \cup {s}
    /\ wallet' = [wallet EXCEPT ![a] = NoNonce]
    /\ UNCHANGED issued

\* The attacker posts, for any address, a signature it has seen or made.
AttackerVerify(a, s) ==
    /\ s \in signed \cup {t \in Signatures : t.signer = Attacker /\ t.nonce <= issued}
    /\ Verify(a, s)
    /\ UNCHANGED <<issued, wallet, signed>>

Next ==
    \/ \E a \in Honest : HonestLogin(a) \/ HonestVerify(a)
    \/ \E a \in Addresses : OtherNonce(a)
    \/ \E a \in Addresses, s \in Signatures : AttackerVerify(a, s)

Spec == Init /\ [][Next]_vars

-----------------------------------------------------------------------------
(* Properties.                                                             *)

\* No replay: a signed login message yields at most one JWT, however often
\* it is posted (verify removes the nonce before it checks anything).
NoReplay == \A s \in Signatures : tokens[s] <= 1

=============================================================================
