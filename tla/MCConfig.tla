------------------------------ MODULE MCConfig ------------------------------
EXTENDS Config

MCValues ==
  [f \in Fields |->
     CASE f = "header_timeout" -> {0, 1, 50, 51}
       [] f = "max_header_size" -> {0, 1, 5001}
       [] f = "max_pending_handshakes" -> {0, 1, 5000, 5001}
       [] f = "version" -> {"V1Only", "V2Only"}
       [] OTHER -> {"custom"}]
=============================================================================
