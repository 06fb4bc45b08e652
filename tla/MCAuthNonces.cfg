\* Two honest wallets and an attacker, four nonces.
CONSTANTS
    h1 = h1
    h2 = h2
    e = e
    Honest = {h1, h2}
    Attacker = e
    MaxNonces = 4
SPECIFICATION Spec
INVARIANT NoReplay
