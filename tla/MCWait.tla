------------------------------- MODULE MCWait -------------------------------
(* wasm_wait with three agents of one address: one that waits, one that    *)
(* notifies and one that does both.                                        *)
EXTENDS Wait

CONSTANTS ag1, ag2, ag3

MCAgent == {ag1, ag2, ag3}
MCWaiter == {ag1, ag2}
MCNotifier == {ag2, ag3}
=============================================================================
