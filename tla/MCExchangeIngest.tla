-------------------------- MODULE MCExchangeIngest --------------------------
(* Five logs of the exchange listing registry: outlet o1's request (block  *)
(* 0), test (1) and finalization (2); a finalization of o2 whose data does *)
(* not decode (1); a test of o2, which has no row (2).                     *)
EXTENDS ExchangeIngest

CONSTANTS o1, o2, t1, t2, f1, d1

MCBlockOf == <<0, 1, 1, 2, 2>>
MCDecodable == <<TRUE, TRUE, FALSE, TRUE, TRUE>>

Log(k, o, t) == [kind |-> k, outlet |-> o, tier |-> t, fee |-> f1, domain |-> d1]

MCEvent ==
    << Log("requested", o1, t1), Log("test", o1, t1), Log("finalized", o2, t2),
       Log("finalized", o1, t2), Log("test", o2, t1) >>
=============================================================================
