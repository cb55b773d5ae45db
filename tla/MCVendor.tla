------------------------------ MODULE MCVendor ------------------------------
EXTENDS Vendor, MCBuilder

\* Values in and out of each vendor's format, identifiers at both ends of their width.
AwsValues == {<<>>, <<1>>, <<1, 97, 45>>, <<1, 95>>, <<1, 200>>, <<2, 200>>}
AzureValues ==
  {<<>>, <<2>>, <<1, 0, 1, 2, 3>>, <<1, 4, 4, 4, 4>>, <<1, 1, 2, 3>>, <<2, 0, 1, 2, 3>>}
GcpValues == {<<>>, [i \in 1..7 |-> 1], <<0, 1, 2, 3, 4, 3, 0, 1>>, [i \in 1..8 |-> 4]}

\* Vendor TLVs, and types the parser decodes itself given by hand.
MCRawTlvs ==
  ({AWS} \X AwsValues) \cup ({AZURE} \X AzureValues) \cup ({GCP} \X GcpValues)
    \cup ({5, 32} \X MCStrings)
=============================================================================
