----------------------------- MODULE MCServices -----------------------------
(* Small instances of the services around the booking engine.              *)
EXTENDS Services

MCKind  == {"signup", "recover"}
MCSteps == <<"title", "price", "capacity">>
=============================================================================
