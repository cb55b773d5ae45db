----------------------------- MODULE MCBuilder ------------------------------
EXTENDS Builder, MCWire

MCSocketAddrs ==
  {Inet([family |-> "Inet", octets |-> <<3>>], 0), Inet([family |-> "Inet", octets |-> <<4>>], U16_MAX),
   Inet([family |-> "Inet6", octets |-> <<5, 6>>], 7)}
MCPaths == {<<>>, <<47, 97>>, <<47, 97, 98>>, <<0, 97>>}
MCStrings == {<<>>, <<97>>, <<200, 98>>, [i \in 1..3 |-> 99],
              [i \in 1..(U16_MAX - 9) |-> 100], [i \in 1..(U16_MAX + 1) |-> 101]}
Ssl(flags, verified, version, cert) ==
  [client_flags |-> flags, verified |-> verified, version |-> version, cn |-> None,
   cipher |-> version, sig_alg |-> None, key_alg |-> None, group |-> None,
   sig_scheme |-> None, client_cert |-> cert]
CrcStrings == {<<>>, <<1, 2, 3, 4>>}
CrcTlvs == {3} \X CrcStrings
MCSslInfos == {Ssl(0, TRUE, None, None), Ssl(5, FALSE, None, Some(<<200>>)),
               Ssl(7, TRUE, Some(<<49>>), None),
               Ssl(1, TRUE, None, Some([i \in 1..(U16_MAX + 1) |-> 1]))}
=============================================================================
