------------------------- MODULE MCOpcuaExtraction -------------------------
(* Frames on both sides of every comparison of the parser.                 *)
EXTENDS OpcuaExtraction

CONSTANTS t1, t2, known, unknown

McThumbs == {t1, t2}
McMacs == {known, unknown}

Uris == {46, ChunkBytes, ChunkBytes + 1, -1}
Certs == {NullCertString, 0, 255, 256, 511, 512, 8100, MaxCertBytes, MaxCertBytes + 1, -2}

\* Bytes a message needs up to its thumbprint; null strings take none.
Size(n) == IF n < 0 THEN 0 ELSE n
Needed(u, c) == OpcuaHdr + SecurityHdr1 + Size(u) + CertLengthHdr + Size(c) + ThumbHdr

\* The whole message and more, and the cuts a segment boundary makes.
Payloads(u, c) ==
  {0, OpcuaHdr - 1, OpcuaHdr, OpcuaHdr + SecurityHdr1 + Size(u) + CertLengthHdr - 1,
   Needed(u, c) - 1, Needed(u, c), Needed(u, c) + 40}
  \union IF c = 8100 THEN {8191, 8192, 8199, 8200} ELSE {}

Opn(u, c, n, offset, thumb, dst) ==
  [ipv4 |-> TRUE, tcp |-> TRUE, port |-> TRUE, opn |-> TRUE, dst |-> dst,
   dataOffset |-> offset, bytes |-> 4 * offset - 20 + n, uri |-> u, cert |-> c,
   thumb |-> thumb]

OpnPackets ==
  UNION {{Opn(u, c, n, 8, t, known) : n \in Payloads(u, c), t \in {t1, NoThumb}} :
           u \in Uris, c \in Certs}

\* One field at a time away from a small listed OPN message.
Sample == Opn(46, 300, Needed(46, 300), 5, t2, known)
OtherPackets ==
  {Sample, [Sample EXCEPT !.ipv4 = FALSE], [Sample EXCEPT !.tcp = FALSE],
   [Sample EXCEPT !.port = FALSE], [Sample EXCEPT !.opn = FALSE],
   [Sample EXCEPT !.dst = unknown]}

McPackets == OpnPackets \union OtherPackets
=============================================================================
