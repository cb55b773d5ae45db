---------------------------- MODULE MCStreamUse -----------------------------
EXTENDS StreamUse, MCListener

\* A version 2 header with five octets after it, a direct stream of six, and
\* streams that a listener for both versions would take for version 1: a header, a
\* broken one, and the beginning of one.
MCStreams ==
  {V2Local \o <<7, 8, 9, 7, 8>>, <<7, 8, 9, 7, 8, 9>>, V1Unknown \o <<7, 8>>,
   <<80, 82, 32, 57, 13, 10, 7>>, <<80, 82>>}
=============================================================================
