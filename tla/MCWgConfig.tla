----------------------------- MODULE MCWgConfig -----------------------------
(* Entries without addresses, with one, and with an IPv6 address first. *)
EXTENDS WgConfig
MCAddrLists == {<< >>, <<"v4">>, <<"v6", "v4">>}
=============================================================================
