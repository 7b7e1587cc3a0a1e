------------------------- MODULE MCFirmwareDownload -------------------------
EXTENDS FirmwareDownload

\* The expected image, one of the same length that shares its head, a shorter one, and one
\* that does not fit the partition of three blocks.
MCExpected == <<"a", "b", "c">>
MCImage == {MCExpected, <<"a", "x", "c">>, <<"a", "b">>, <<"a", "b", "c", "d">>}
=============================================================================
