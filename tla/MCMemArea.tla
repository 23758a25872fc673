----------------------------- MODULE MCMemArea -----------------------------
(* Two addresses, two contents, the constructor's 20 bytes and one other  *)
(* byte count: enough for a request to be answered after the address or   *)
(* the count changed, and for a response longer than data_.              *)
EXTENDS MemArea

MCSizes == {16, 20}

=============================================================================
