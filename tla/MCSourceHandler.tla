--------------------------- MODULE MCSourceHandler ---------------------------
(* SourceHandler for TLC: two buffers, chunks of three units, datagrams  *)
(* of one or two units, buffers allocated at four units, two channels.   *)
EXTENDS SourceHandler

MCPayloadSizes == {1, 2}
MCUris == {"A", "B"}
MCOneUri == {"A"}

=============================================================================
