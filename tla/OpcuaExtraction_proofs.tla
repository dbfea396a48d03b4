----------------------- MODULE OpcuaExtraction_proofs -----------------------
(***************************************************************************)
(* Machine-checked proofs about the switch, for every set of frames, of    *)
(* thumbprints and of addresses, and with the program's real constants.    *)
(*                                                                         *)
(* ChunkInv carries the certificate length from the field the parser read  *)
(* to the loop that consumes it: without it remaining could leave its      *)
(* word.  The wide constants (Bits16, Words29, Int32) are opened only in   *)
(* the first lemmas.                                                       *)
(***************************************************************************)
EXTENDS OpcuaExtraction, TLAPS

\* The 16 and 32 bit words: what the parser's subtraction and its lengths stay in.
LEMMA WordFacts ==
  /\ Int32 \subseteq Int
  /\ 0 \in Int32
  /\ \A n \in Int32 : n >= ChunkBytes => n - ChunkBytes \in Int32
  /\ \A n \in Int32 : VarbitBytes(n) \in Nat
  /\ Bits16 \in Nat
  <1>0. MaxInt32 \in Nat
    BY SMT DEF MaxInt32
  <1>1. Int32 \subseteq Int /\ 0 \in Int32
    BY <1>0, SMT DEF Int32
  <1>2. \A n \in Int32 : n >= ChunkBytes => n - ChunkBytes \in Int32
    BY <1>0, SMT DEF Int32, ChunkBytes
  <1>3. \A n \in Int : VarbitBytes(n) \in Nat
    BY SMT DEF VarbitBytes, Words29
  <1>4. Bits16 \in Nat
    BY SMT DEF Bits16
  <1>. QED  BY <1>1, <1>2, <1>3, <1>4

\* The bytes of a frame fit the cursor.
LEMMA FrameBytes == \A n \in 0 .. Bits16 - 41 : n \in 0 .. Bits16
  <1>1. Bits16 \in Nat
    BY WordFacts
  <1>. QED  BY <1>1, SMT

\* A frame has the fields the parser reads.
LEMMA PktFields ==
  ASSUME pkt \in Packets
  PROVE  /\ pkt.ipv4 \in BOOLEAN /\ pkt.tcp \in BOOLEAN
         /\ pkt.port \in BOOLEAN /\ pkt.opn \in BOOLEAN
         /\ pkt.bytes \in 0 .. Bits16 /\ pkt.dataOffset \in 5 .. 15
         /\ pkt.cert \in Int32 /\ pkt.uri \in Int32
  <1>1. pkt \in Packet
    BY PacketsAssumption
  <1>. QED  BY <1>1, FrameBytes DEF Packet

\* dataOffset announces between 0 and 40 bytes of TCP options.
LEMMA OptionBytesRange ==
  ASSUME pkt \in Packets
  PROVE  OptionBytes(pkt) \in 0 .. MaxOptions
  BY PktFields, SMT DEF OptionBytes, MaxOptions

\* What extracting a header does to the cursor.
LEMMA ExtractCursor ==
  ASSUME left \in 0 .. Bits16, NEW n \in Nat, NEW limit \in Nat, NEW s, Extract(n, limit, s)
  PROVE  /\ left' \in 0 .. Bits16
         /\ \/ n <= left /\ n <= limit /\ state' = s /\ left' = left - n
            \/ (left < n \/ limit < n) /\ state' = "ingress" /\ left' = left
  <1>1. CASE Fits(n, limit)
    BY <1>1, WordFacts, SMT DEF Extract, Fits
  <1>2. CASE ~Fits(n, limit)
    BY <1>2, WordFacts, SMT DEF Extract, Fits
  <1>. QED  BY <1>1, <1>2
-----------------------------------------------------------------------------
BeforeLoop == States \ {"parse_certificate", "parse_certificate_ending_part",
                        "parse_opcua_security_hdr6_thumb", "ingress", "idle"}

\* The certificate length on its way to the loop and in it.
ChunkInv ==
  /\ ChunkLoopExact
  /\ state \in BeforeLoop => chunks = 0
  /\ state = "check_cert_upper_bound" => remaining = pkt.cert
  /\ state \in {"parse_certificate", "parse_certificate_ending_part"}
       => pkt.cert \in 0 .. MaxCertBytes

Inv == TypeOK /\ ChunkInv

\* The switch starts between packets.
LEMMA InitInv == Init => Inv
  <1>. SUFFICES ASSUME Init PROVE Inv
    OBVIOUS
  <1>1. 0 \in 0 .. MaxChunks /\ 0 \in 0 .. Bits16
    BY WordFacts, SMT DEF MaxChunks
  <1>2. TypeOK
    BY <1>1, WordFacts, Zenon DEF Init, TypeOK, States
  <1>3. ChunkInv
    BY Zenon DEF Init, ChunkInv, ChunkLoopExact, BeforeLoop
  <1>. QED  BY <1>2, <1>3 DEF Inv

\* A header in front of the certificate: s is the state after it.
LEMMA HeaderStep ==
  ASSUME Inv, NEW n \in Nat, NEW limit \in Nat,
         NEW s \in States \ {"check_cert_upper_bound", "parse_certificate",
                             "parse_certificate_ending_part"},
         chunks = 0 \/ s \notin BeforeLoop,
         Extract(n, limit, s), UNCHANGED <<pkt, egress, tables>>,
         UNCHANGED <<remaining, chunks, cert_too_large>>,
         thumb_valid' \in BOOLEAN
  PROVE  Inv'
  <1>1. left' \in 0 .. Bits16 /\ (state' = s \/ state' = "ingress")
    BY ExtractCursor, Zenon DEF Inv, TypeOK
  <1>. QED  BY <1>1, Zenon DEF Inv, TypeOK, ChunkInv, ChunkLoopExact, BeforeLoop, States, tables

\* Each parser state, ingress and the table commands keep the invariant.
LEMMA InvStep == Inv /\ [Next]_vars => Inv'
  <1>. SUFFICES ASSUME Inv, [Next]_vars PROVE Inv'
    OBVIOUS
  <1>1. CASE PacketIn
    <2>1. \A p \in Packets : p.bytes \in 0 .. Bits16
      BY PacketsAssumption, FrameBytes DEF Packet
    <2>2. 0 \in 0 .. MaxChunks
      BY SMT DEF MaxChunks
    <2>3. TypeOK'
      BY <1>1, <2>1, <2>2, WordFacts, Zenon DEF PacketIn, tables, Inv, TypeOK, States
    <2>4. ChunkInv'
      BY <1>1, Zenon DEF PacketIn, ChunkInv, ChunkLoopExact, BeforeLoop
    <2>. QED  BY <2>3, <2>4 DEF Inv
  <1>2. CASE ParseHeaders
    BY <1>2, SMT DEF ParseHeaders, Step, Goto, tables, Inv, TypeOK, ChunkInv, ChunkLoopExact,
                BeforeLoop, States
  <1>3. CASE MaybeParseOpcua
    BY <1>3, SMT DEF MaybeParseOpcua, Step, Goto, tables, Inv, TypeOK, ChunkInv, ChunkLoopExact,
                BeforeLoop, States
  <1>4. CASE ParseTcpOptions
    BY <1>4, OptionBytesRange, HeaderStep, SMT
       DEF ParseTcpOptions, Step, MaxOptions, BeforeLoop, States, Inv, TypeOK, ChunkInv
  <1>5. CASE ParseOpcuaHdr
    <2>1. PICK s \in {"parse_opcua_security_hdr1", "ingress"} : Extract(OpcuaHdr, OpcuaHdr, s)
      BY <1>5, Zenon DEF ParseOpcuaHdr
    <2>2. chunks = 0
      BY <1>5, Zenon DEF ParseOpcuaHdr, Step, Inv, ChunkInv, BeforeLoop, States
    <2>3. OpcuaHdr \in Nat
      BY SMT DEF OpcuaHdr
    <2>4. thumb_valid' \in BOOLEAN
      BY <1>5, Zenon DEF ParseOpcuaHdr, Inv, TypeOK
    <2>. QED  BY <1>5, <2>1, <2>2, <2>3, <2>4, HeaderStep, Zenon DEF ParseOpcuaHdr, Step, States
  <1>6. CASE ParseSecurityHdr1
    BY <1>6, HeaderStep, SMT
       DEF ParseSecurityHdr1, Step, SecurityHdr1, BeforeLoop, States, Inv, TypeOK, ChunkInv
  <1>7. CASE ParseSecurityHdr2
    <2>0. pkt \in Packets
      BY Zenon DEF Inv, TypeOK
    <2>1. VarbitBytes(pkt.uri) \in Nat
      BY <2>0, PktFields, WordFacts, Zenon
    <2>2. ChunkBytes \in Nat
      BY SMT DEF ChunkBytes
    <2>. QED  BY <1>7, <2>1, <2>2, HeaderStep, SMT
              DEF ParseSecurityHdr2, Step, BeforeLoop, States, Inv, TypeOK, ChunkInv
  <1>8. CASE ParseSecurityHdr3
    <2>1. left' \in 0 .. Bits16
          /\ \/ CertLengthHdr <= left /\ (state' = "ingress" \/ state' = "check_cert_upper_bound")
             \/ ~Fits(CertLengthHdr, CertLengthHdr) /\ state' = "ingress"
      BY <1>8, ExtractCursor, SMT DEF ParseSecurityHdr3, Fits, CertLengthHdr, Inv, TypeOK
    <2>2. Fits(CertLengthHdr, CertLengthHdr) <=> CertLengthHdr <= left
      BY SMT DEF Fits, CertLengthHdr
    <2>3. remaining' \in Int32 /\ (CertLengthHdr <= left => remaining' = pkt.cert)
      BY <1>8, <2>2, PktFields, SMT DEF ParseSecurityHdr3, Inv, TypeOK
    <2>. QED  BY <1>8, <2>1, <2>2, <2>3, SMT
              DEF ParseSecurityHdr3, Step, tables, BeforeLoop, States, Inv, TypeOK, ChunkInv,
                  ChunkLoopExact
  <1>9. CASE CheckCertUpperBound
    <2>. pkt.cert \in Int /\ remaining = pkt.cert /\ chunks = 0
      BY <1>9, PktFields, WordFacts, SMT
         DEF CheckCertUpperBound, Step, Inv, TypeOK, ChunkInv, BeforeLoop, States
    <2>1. /\ ~Exceeds(remaining, MaxCertBytes) => pkt.cert \in 0 .. MaxCertBytes
          /\ Exceeds(remaining, 255) /\ ~Exceeds(remaining, MaxCertBytes)
               => remaining >= ChunkBytes
          /\ ~Exceeds(remaining, 255) => remaining < ChunkBytes
          /\ chunks < MaxChunks /\ chunks * ChunkBytes + remaining = pkt.cert
      <3>1. ~Exceeds(remaining, MaxCertBytes) => pkt.cert \in 0 .. MaxCertBytes
        <4>1. MaxCertBytes \in Nat
          BY SMT DEF MaxCertBytes
        <4>. QED  BY <4>1, SMT DEF Exceeds
      <3>2. /\ Exceeds(remaining, 255) /\ ~Exceeds(remaining, MaxCertBytes)
               => remaining >= ChunkBytes
            /\ ~Exceeds(remaining, 255) => remaining < ChunkBytes
        BY SMT DEF Exceeds, ChunkBytes
      <3>3. chunks < MaxChunks
        BY SMT DEF MaxChunks
      <3>4. chunks * ChunkBytes + remaining = pkt.cert
        BY SMT DEF ChunkBytes
      <3>. QED BY <3>1, <3>2, <3>3, <3>4
    <2>2. /\ UNCHANGED <<pkt, egress, tables, left, remaining, chunks, thumb_valid>>
          /\ cert_too_large' \in BOOLEAN
          /\ \/ state' = "ingress"
             \/ /\ state' = "parse_certificate"
                /\ Exceeds(remaining, 255) /\ ~Exceeds(remaining, MaxCertBytes)
             \/ /\ state' = "parse_certificate_ending_part"
                /\ ~Exceeds(remaining, 255) /\ ~Exceeds(remaining, MaxCertBytes)
      BY <1>9, SMT DEF CheckCertUpperBound, Step, Exceeds
    <2>. QED  BY <2>1, <2>2, SMT
              DEF tables, States, BeforeLoop, Inv, TypeOK, ChunkInv, ChunkLoopExact
  <1>10. CASE ParseCertificate
    <2>0. /\ chunks * ChunkBytes + remaining = pkt.cert
          /\ remaining >= ChunkBytes /\ chunks < MaxChunks
          /\ pkt.cert \in 0 .. MaxCertBytes
          /\ remaining \in Int /\ left \in 0 .. Bits16
          /\ state = "parse_certificate" /\ UNCHANGED <<pkt, egress, tables>>
          /\ UNCHANGED <<cert_too_large, thumb_valid>>
      BY <1>10, WordFacts, SMT
         DEF ParseCertificate, Step, Inv, TypeOK, ChunkInv, ChunkLoopExact
    <2>1. CASE ChunkBytes <= left
      <3>1. /\ left' = left - ChunkBytes /\ chunks' = chunks + 1
            /\ remaining' = remaining - ChunkBytes
            /\ state' = IF Exceeds(remaining', 255) THEN "parse_certificate"
                        ELSE "parse_certificate_ending_part"
        BY <1>10, <2>0, <2>1, SMT DEF ParseCertificate
      <3>2. left' \in 0 .. Bits16 /\ chunks' \in 0 .. MaxChunks /\ remaining' \in Int32
        BY <2>0, <2>1, <3>1, WordFacts, SMT DEF Inv, TypeOK, ChunkBytes, MaxChunks
      <3>3. chunks' * ChunkBytes + remaining' = pkt'.cert /\ remaining' >= 0
        BY <2>0, <3>1, SMT DEF Inv, TypeOK, ChunkBytes, MaxChunks
      <3>4. CASE Exceeds(remaining', 255)
        <4>1. remaining' >= ChunkBytes
          BY <2>0, <3>1, <3>3, <3>4, SMT DEF Exceeds, ChunkBytes
        <4>2. chunks' < MaxChunks
          <5>1. MaxCertBytes = 25855
            BY DEF MaxCertBytes
          <5>2. pkt' = pkt /\ pkt.cert <= MaxCertBytes /\ pkt.cert \in Int
            <6>1. MaxCertBytes \in Nat
              BY <5>1, SMT
            <6>. QED  BY <2>0, <6>1, SMT
          <5>3. chunks' \in Nat /\ remaining' \in Int
            BY <2>0, <3>1, <3>2, WordFacts, SMT DEF Inv, TypeOK, MaxChunks
          <5>. QED  BY <3>3, <4>1, <5>1, <5>2, <5>3, SMT DEF ChunkBytes, MaxChunks
        <4>. QED  BY <2>0, <3>1, <3>2, <3>3, <3>4, <4>1, <4>2, SMT
                  DEF Inv, TypeOK, ChunkInv, ChunkLoopExact, BeforeLoop, States, tables
      <3>5. CASE ~Exceeds(remaining', 255)
        <4>1. remaining' < ChunkBytes
          BY <2>0, <3>1, <3>2, <3>5, SMT DEF Exceeds, ChunkBytes
        <4>. QED  BY <2>0, <3>1, <3>2, <3>3, <3>5, <4>1, SMT
                  DEF Inv, TypeOK, ChunkInv, ChunkLoopExact, BeforeLoop, States, tables
      <3>. QED  BY <3>4, <3>5
    <2>2. CASE ~(ChunkBytes <= left)
      <3>1. state' = "ingress" /\ UNCHANGED <<left, chunks, remaining>>
        BY <1>10, <2>2, SMT DEF ParseCertificate
      <3>. QED  BY <2>0, <3>1, SMT
                DEF Inv, TypeOK, ChunkInv, ChunkLoopExact, BeforeLoop, States, tables
    <2>. QED  BY <2>1, <2>2
  <1>11. CASE ParseEndingPart
    <2>1. VarbitBytes(remaining) \in Nat /\ ChunkBytes \in Nat
      BY WordFacts, SMT DEF ChunkBytes, Inv, TypeOK
    <2>2. thumb_valid' \in BOOLEAN
      BY <1>11, Zenon DEF ParseEndingPart, Inv, TypeOK
    <2>. QED  BY <1>11, <2>1, <2>2, HeaderStep, Zenon
              DEF ParseEndingPart, Step, BeforeLoop, States
  <1>12. CASE ParseThumb
    <2>1. thumb_valid' \in BOOLEAN /\ ThumbHdr \in Nat
      BY <1>12, SMT DEF ParseThumb, Fits, ThumbHdr
    <2>. QED  BY <1>12, <2>1, HeaderStep, Zenon DEF ParseThumb, Step, BeforeLoop, States
  <1>13. CASE Ingress
    BY <1>13, SMT
       DEF Ingress, tables, Inv, TypeOK, ChunkInv, ChunkLoopExact, BeforeLoop, States
  <1>14. CASE \E t \in Thumbs : TableAdd(t)
    BY <1>14, SMT
       DEF TableAdd, parser, Inv, TypeOK, ChunkInv, ChunkLoopExact, BeforeLoop, States
  <1>15. CASE TableClear
    BY <1>15, SMT
       DEF TableClear, parser, Inv, TypeOK, ChunkInv, ChunkLoopExact, BeforeLoop, States
  <1>16. CASE UNCHANGED vars
    BY <1>16, SMT
       DEF vars, parser, tables, Inv, TypeOK, ChunkInv, ChunkLoopExact, BeforeLoop, States
  <1>. QED  BY <1>1, <1>2, <1>3, <1>4, <1>5, <1>6, <1>7, <1>8, <1>9, <1>10, <1>11,
               <1>12, <1>13, <1>14, <1>15, <1>16 DEF Next, ParserStep

\* Every reachable state of the switch is in its type: the certificate length
\* counts down without leaving its 32 bit word.
THEOREM TypeCorrect == Spec => []TypeOK
  <1>1. Inv => TypeOK
    BY DEF Inv
  <1>. QED  BY <1>1, InitInv, InvStep, PTL DEF Spec

\* The parser's chunk loop never loses, repeats or overruns a byte of the
\* certificate, whatever lengths the frame announces.
THEOREM ChunkLoopAlwaysExact == Spec => []ChunkLoopExact
  <1>1. Inv => ChunkLoopExact
    BY DEF Inv, ChunkInv
  <1>. QED  BY <1>1, InitInv, InvStep, PTL DEF Spec
-----------------------------------------------------------------------------
(* DecisionAsMeant.  Parsing is left behind: what the parser knows about a *)
(* regular frame in each of its states, and how far its cursor is.         *)

Regular == WellFormed(pkt) /\ LengthFits(pkt)

Addressed == pkt.ipv4 /\ pkt.tcp /\ pkt.port

\* The cursor is n bytes into the payload.
After(n) == left = Payload(pkt) - n /\ left >= 0

\* After the URI of an OPN message.
Opened(n) == OpenSecureChannel(pkt) /\ pkt.uri \in 0 .. ChunkBytes /\ After(16 + pkt.uri + n)

Verdict ==
  /\ cert_too_large = Oversized(pkt)
  /\ thumb_valid = Checked(pkt)

CursorInv ==
  Regular =>
    /\ state \notin {"ingress", "idle"} => cert_too_large = FALSE /\ thumb_valid = FALSE
    /\ state \in {"parse_ethernet", "maybe_parse_opcua", "parse_tcp_options"} => left = pkt.bytes
    /\ state = "maybe_parse_opcua" => pkt.ipv4 /\ pkt.tcp
    /\ state \in {"parse_tcp_options", "parse_opcua_hdr"} => Addressed /\ Payload(pkt) >= OpcuaHdr
    /\ state = "parse_opcua_hdr" => After(0)
    /\ state = "parse_opcua_security_hdr1" => OpenSecureChannel(pkt) /\ After(8)
    /\ state = "parse_opcua_security_hdr2" => OpenSecureChannel(pkt) /\ After(16)
    /\ state = "parse_opcua_security_hdr3" => Opened(0)
    /\ state = "check_cert_upper_bound" => Opened(4) /\ pkt.cert # NullCertString
    /\ state \in {"parse_certificate", "parse_certificate_ending_part"}
         => Opened(4 + pkt.cert - remaining) /\ remaining >= 0
    /\ state = "parse_opcua_security_hdr6_thumb"
         => Opened(4 + pkt.cert) /\ pkt.cert \in 0 .. MaxCertBytes
    /\ state = "ingress" => Verdict

\* The numbers the parser reads of a packet are in range.
LEMMA PktNumbers ==
  ASSUME pkt \in Packets
  PROVE  /\ pkt.bytes \in Nat /\ pkt.uri \in Int /\ pkt.cert \in Int
         /\ OptionBytes(pkt) \in 0 .. 40 /\ Payload(pkt) \in Int
  <1>1. pkt.bytes \in Nat /\ pkt.uri \in Int /\ pkt.cert \in Int
    <2>1. \A n \in 0 .. Bits16 : n \in Nat
      BY WordFacts, SMT
    <2>. QED  BY <2>1, PktFields, WordFacts, Zenon
  <1>2. OptionBytes(pkt) \in 0 .. 40
    BY OptionBytesRange DEF MaxOptions
  <1>. QED  BY <1>1, <1>2 DEF Payload

\* payload_length is eight times the payload modulo 8192.
LEMMA PayloadWord ==
  ASSUME NEW b \in Nat, NEW d \in 5 .. 15, b - (4 * d - 20) >= 0
  PROVE  ((((b + 40 - 20) * 8) % Bits16) - d * 32) % Bits16 = 8 * ((b - (4 * d - 20)) % 8192)
  BY SMT DEF Bits16

\* A varbit of n * 8 bits takes n bytes, if n is a length at all.
LEMMA VarbitOfLength ==
  /\ \A n \in 0 .. Words29 - 1 : VarbitBytes(n) = n
  /\ VarbitBytes(-1) > ChunkBytes
  <1>1. Words29 \in Nat /\ Words29 > 257
    BY SMT DEF Words29
  <1>2. \A n \in 0 .. Words29 - 1 : n % Words29 = n
    BY <1>1, SMT
  <1>3. (-1) % Words29 > ChunkBytes
    <2>1. \A w \in Nat : w > 257 => (-1) % w > 256
      BY SMT
    <2>2. (-1) % Words29 > 256
      BY <1>1, <2>1
    <2>. QED  BY <2>2, SMT DEF ChunkBytes
  <1>. QED  BY <1>2, <1>3 DEF VarbitBytes

\* payload_length counts the bytes behind the TCP header.
LEMMA PayloadLength ==
  ASSUME pkt \in Packets, Payload(pkt) >= 0
  PROVE  payload_length(pkt) = 8 * (Payload(pkt) % 8192)
  <1>1. pkt.bytes \in Nat /\ pkt.dataOffset \in 5 .. 15
    BY PktNumbers, PktFields
  <1>2. Payload(pkt) = pkt.bytes - (4 * pkt.dataOffset - 20)
    BY Zenon DEF Payload, OptionBytes
  <1>3. payload_length(pkt)
          = ((((pkt.bytes + 40 - 20) * 8) % Bits16) - pkt.dataOffset * 32) % Bits16
    <2>1. totalLen(pkt) - 20 = pkt.bytes + 40 - 20 /\ header_length(pkt) = pkt.dataOffset * 32
      BY <1>1 DEF totalLen, header_length
    <2>2. full_length(pkt) = ((pkt.bytes + 40 - 20) * 8) % Bits16
      BY <2>1, Zenon DEF full_length
    <2>. QED  BY <2>1, <2>2, Zenon DEF payload_length
  <1>4. ((((pkt.bytes + 40 - 20) * 8) % Bits16) - pkt.dataOffset * 32) % Bits16
          = 8 * ((pkt.bytes - (4 * pkt.dataOffset - 20)) % 8192)
    <2>1. pkt.bytes - (4 * pkt.dataOffset - 20) >= 0
      BY <1>2, Zenon
    <2>. QED  BY <1>1, <2>1, PayloadWord, SMT
  <1>. QED  BY <1>2, <1>3, <1>4, SMT

\* What the two tests of payload_length decide about a regular frame.
LEMMA LengthTests ==
  ASSUME pkt \in Packets, Regular
  PROVE  /\ Payload(pkt) >= OpcuaHdr <=> payload_length(pkt) >= 8 * OpcuaHdr
         /\ payload_length(pkt) = 0 => ~(payload_length(pkt) >= 8 * OpcuaHdr)
  <1>1. Payload(pkt) \in Nat /\ payload_length(pkt) = 8 * (Payload(pkt) % 8192)
    BY PktNumbers, PayloadLength DEF Regular, WellFormed
  <1>2. Payload(pkt) >= 8 => Payload(pkt) % 8192 >= 8
    BY DEF Regular, LengthFits, OpcuaHdr
  <1>3. \A n \in Nat : n % 8192 \in Nat /\ (n < 8 => n % 8192 = n)
    OBVIOUS
  <1>. QED  BY <1>1, <1>2, <1>3 DEF OpcuaHdr

\* A packet that is no OPN message, or too short for one, is neither oversized nor checked.
LEMMA ShortFrame ==
  ASSUME pkt \in Packets,
         \/ ~OpenSecureChannel(pkt) \/ pkt.uri \notin 0 .. ChunkBytes
         \/ Payload(pkt) < 20 + pkt.uri \/ pkt.cert = NullCertString
  PROVE  ~Oversized(pkt) /\ ~Checked(pkt)
  <1>1. pkt.uri \in Int /\ pkt.cert \in Int /\ Payload(pkt) \in Int
    BY PktNumbers
  <1>2. NullCertString \notin 0 .. MaxCertBytes
    BY DEF NullCertString, MaxCertBytes
  <1>3. ASSUME Payload(pkt) < 20 + pkt.uri PROVE ~Oversized(pkt) /\ ~Checked(pkt)
    <2>1. \A n \in 0 .. MaxCertBytes : n \in Nat
      BY DEF MaxCertBytes
    <2>. QED  BY <1>1, <1>3, <2>1 DEF Oversized, Checked, OpcuaHdr, SecurityHdr1, CertLengthHdr, ThumbHdr
  <1>. QED  BY <1>2, <1>3 DEF Oversized, Checked

\* So is one without the fixed part of the header.
LEMMA TooShort ==
  ASSUME pkt \in Packets, Payload(pkt) < 20
  PROVE  ~Oversized(pkt) /\ ~Checked(pkt)
  <1>1. pkt.uri \in Int /\ Payload(pkt) \in Int
    BY PktNumbers
  <1>2. pkt.uri \notin 0 .. ChunkBytes \/ Payload(pkt) < 20 + pkt.uri
    BY <1>1, SMT DEF ChunkBytes
  <1>. QED  BY <1>2, ShortFrame

\* The length fields the parser can extract.
LEMMA UriFits ==
  /\ \A n \in -1 .. Words29 - 1 :
       VarbitBytes(n) <= ChunkBytes => VarbitBytes(n) = n /\ n \in 0 .. ChunkBytes
  /\ \A n \in 0 .. ChunkBytes : VarbitBytes(n) = n
  <1>1. Words29 \in Nat /\ Words29 > ChunkBytes /\ ChunkBytes \in Nat
    BY SMT DEF Words29, ChunkBytes
  <1>2. ASSUME NEW n \in -1 .. Words29 - 1, VarbitBytes(n) <= ChunkBytes
        PROVE  VarbitBytes(n) = n /\ n \in 0 .. ChunkBytes
    <2>1. CASE n = -1
      <3>1. VarbitBytes(-1) \in Int
        BY <1>1 DEF VarbitBytes
      <3>. QED  BY <1>1, <1>2, <2>1, <3>1, VarbitOfLength
    <2>2. CASE n # -1
      <3>1. n \in 0 .. Words29 - 1
        BY <1>1, <2>2
      <3>2. VarbitBytes(n) = n
        BY <3>1, VarbitOfLength
      <3>. QED  BY <1>1, <1>2, <3>1, <3>2
    <2>. QED  BY <2>1, <2>2
  <1>3. \A n \in 0 .. ChunkBytes : n \in 0 .. Words29 - 1
    BY <1>1
  <1>. QED  BY <1>2, <1>3, VarbitOfLength

\* A certificate that does not fit the frame.
LEMMA CutCertificate ==
  ASSUME pkt.uri \in 0 .. ChunkBytes, pkt.cert \in 0 .. MaxCertBytes, Payload(pkt) \in Nat,
         remaining \in Int, left \in Int, remaining > left,
         left = Payload(pkt) - (16 + pkt.uri + (4 + pkt.cert - remaining))
  PROVE  ~Oversized(pkt) /\ ~Checked(pkt)
  <1>1. pkt.uri \in Int /\ pkt.cert \in Int
    BY SMT
  <1>2. Payload(pkt) < 20 + pkt.uri + pkt.cert
    BY <1>1
  <1>. QED  BY <1>1, <1>2 DEF Oversized, Checked, OpcuaHdr, SecurityHdr1, CertLengthHdr, ThumbHdr

\* A step that ends at ingress with nothing to hold against the frame.
LEMMA NothingFound ==
  ASSUME ~Oversized(pkt), ~Checked(pkt), pkt' = pkt, state' = "ingress",
         cert_too_large' = FALSE, thumb_valid' = FALSE
  PROVE  CursorInv'
  <1>1. Oversized(pkt) \in BOOLEAN /\ Checked(pkt) \in BOOLEAN
    BY Zenon DEF Oversized, Checked
  <1>2. Oversized(pkt) = FALSE /\ Checked(pkt) = FALSE
    BY <1>1, Zenon
  <1>3. Oversized(pkt)' = Oversized(pkt) /\ Checked(pkt)' = Checked(pkt)
    BY DEF Oversized, Checked, OpenSecureChannel, Payload, OptionBytes
  <1>4. Verdict'
    BY <1>2, <1>3, Zenon DEF Verdict
  <1>. QED  BY <1>4, Zenon DEF CursorInv

\* CursorInv is inductive: every state of the parser keeps it.
LEMMA CursorStep ==
  ASSUME Inv, CursorInv, [Next]_vars
  PROVE  CursorInv'
  <1>. SUFFICES ASSUME Regular' PROVE CursorInv'
    BY DEF CursorInv
  <1>1. CASE PacketIn
    <2>1. pkt' \in Packets /\ left' = pkt'.bytes
      BY <1>1 DEF PacketIn
    <2>. QED  BY <1>1, <2>1, Zenon DEF PacketIn, CursorInv
  <1>2. CASE Ingress
    BY <1>2, Zenon DEF Ingress, CursorInv
  <1>3. CASE (\E t \in Thumbs : TableAdd(t)) \/ TableClear \/ UNCHANGED vars
    <2>1. UNCHANGED <<pkt, parser>>
      BY <1>3 DEF TableAdd, TableClear, vars
    <2>2. /\ UNCHANGED <<pkt, state, left, remaining, cert_too_large, thumb_valid>>
      BY <2>1, Zenon DEF parser
    <2>3. Regular' = Regular /\ Payload(pkt)' = Payload(pkt) /\ OpenSecureChannel(pkt)' = OpenSecureChannel(pkt)
      BY <2>2 DEF Regular, WellFormed, LengthFits, OpenSecureChannel, Payload, OptionBytes
    <2>4. Addressed' = Addressed /\ \A n : After(n)' = After(n) /\ Opened(n)' = Opened(n)
      BY <2>2, <2>3 DEF Addressed, After, Opened
    <2>5. Verdict' = Verdict
      BY <2>2, <2>3 DEF Verdict, Oversized, Checked
    <2>. QED  BY <2>2, <2>3, <2>4, <2>5 DEF CursorInv, After, Opened
  <1>4. ASSUME ParserStep PROVE CursorInv'
    <2>0. pkt' = pkt /\ pkt \in Packets
      BY <1>4 DEF ParserStep, ParseHeaders, MaybeParseOpcua, ParseTcpOptions, ParseOpcuaHdr, ParseSecurityHdr1,
              ParseSecurityHdr2, ParseSecurityHdr3, CheckCertUpperBound, ParseCertificate, ParseEndingPart,
              ParseThumb, Step, Inv, TypeOK
    <2>1. Regular
      BY <2>0 DEF Regular, WellFormed, LengthFits, Payload, OptionBytes
    <2>2. /\ Payload(pkt)' = Payload(pkt) /\ OpenSecureChannel(pkt)' = OpenSecureChannel(pkt)
          /\ Addressed' = Addressed
      BY <2>0 DEF Payload, OptionBytes, OpenSecureChannel, Addressed
    <2>3. /\ pkt.bytes \in Nat /\ pkt.uri \in Int /\ pkt.cert \in Int /\ remaining \in Int
          /\ OptionBytes(pkt) \in 0 .. 40 /\ Payload(pkt) \in Nat /\ left \in Int
      <3>1. \A n \in 0 .. Bits16 : n \in Int
        BY WordFacts, SMT
      <3>2. Payload(pkt) >= 0
        BY <2>1 DEF Regular, WellFormed
      <3>. QED  BY <2>0, <3>1, <3>2, PktNumbers, WordFacts DEF Inv, TypeOK
    <2>4. /\ UNCHANGED cert_too_large \/ CheckCertUpperBound
          /\ UNCHANGED thumb_valid \/ ParseThumb
          /\ state \notin {"ingress", "idle"}
      BY <1>4 DEF ParserStep, ParseHeaders, MaybeParseOpcua, ParseTcpOptions, ParseOpcuaHdr, ParseSecurityHdr1,
              ParseSecurityHdr2, ParseSecurityHdr3, CheckCertUpperBound, ParseCertificate, ParseEndingPart,
              ParseThumb, Step, Goto
    <2>5. cert_too_large = FALSE /\ thumb_valid = FALSE
      BY <2>1, <2>4 DEF CursorInv
    <2>6. CASE ParseHeaders
      <3>1. state = "parse_ethernet" /\ left' = left /\ left = pkt.bytes
            /\ cert_too_large' = FALSE /\ thumb_valid' = FALSE
        BY <2>1, <2>5, <2>6 DEF ParseHeaders, Step, Goto, CursorInv
      <3>2. CASE pkt.ipv4 /\ pkt.tcp /\ payload_length(pkt) # 0
        <4>1. state' = "maybe_parse_opcua"
          BY <2>6, <3>2 DEF ParseHeaders, Goto
        <4>. QED  BY <2>0, <3>1, <3>2, <4>1 DEF CursorInv
      <3>3. CASE ~(pkt.ipv4 /\ pkt.tcp /\ payload_length(pkt) # 0)
        <4>1. state' = "ingress"
          BY <2>6, <3>3, Zenon DEF ParseHeaders, Goto
        <4>2. ~Oversized(pkt) /\ ~Checked(pkt)
          <5>1. CASE ~(pkt.ipv4 /\ pkt.tcp)
            BY <2>0, <5>1, ShortFrame DEF OpenSecureChannel
          <5>2. CASE payload_length(pkt) = 0
            <6>1. ~(Payload(pkt) >= OpcuaHdr)
              BY <2>0, <2>1, <5>2, LengthTests
            <6>2. Payload(pkt) < 20
              BY <2>3, <6>1 DEF OpcuaHdr
            <6>. QED  BY <2>0, <6>2, TooShort
          <5>. QED  BY <3>3, <5>1, <5>2
        <4>. QED  BY <2>0, <3>1, <4>1, <4>2, NothingFound
      <3>. QED  BY <3>2, <3>3
    <2>7. CASE MaybeParseOpcua
      <3>1. /\ state = "maybe_parse_opcua" /\ left' = left /\ left = pkt.bytes
            /\ cert_too_large' = FALSE /\ thumb_valid' = FALSE /\ pkt.ipv4 /\ pkt.tcp
        BY <2>1, <2>5, <2>7 DEF MaybeParseOpcua, Step, Goto, CursorInv
      <3>2. CASE pkt.port /\ payload_length(pkt) >= 8 * OpcuaHdr
        <4>1. state' = "parse_tcp_options"
          BY <2>7, <3>2 DEF MaybeParseOpcua, Goto
        <4>2. Addressed' /\ Payload(pkt)' >= OpcuaHdr
          BY <2>0, <2>1, <2>2, <3>1, <3>2, LengthTests DEF Addressed
        <4>. QED  BY <2>0, <3>1, <4>1, <4>2 DEF CursorInv
      <3>3. CASE ~(pkt.port /\ payload_length(pkt) >= 8 * OpcuaHdr)
        <4>1. state' = "ingress"
          BY <2>7, <3>3, Zenon DEF MaybeParseOpcua, Goto
        <4>2. ~Oversized(pkt) /\ ~Checked(pkt)
          <5>1. CASE ~pkt.port
            BY <2>0, <5>1, ShortFrame DEF OpenSecureChannel
          <5>2. CASE ~(payload_length(pkt) >= 8 * OpcuaHdr)
            <6>1. ~(Payload(pkt) >= OpcuaHdr)
              BY <2>0, <2>1, <5>2, LengthTests
            <6>2. Payload(pkt) < 20
              BY <2>3, <6>1 DEF OpcuaHdr
            <6>. QED  BY <2>0, <6>2, TooShort
          <5>. QED  BY <3>3, <5>1, <5>2
        <4>. QED  BY <2>0, <3>1, <4>1, <4>2, NothingFound
      <3>. QED  BY <3>2, <3>3
    <2>8. CASE ParseTcpOptions
      <3>1. /\ left = pkt.bytes /\ Addressed /\ Payload(pkt) >= OpcuaHdr
            /\ cert_too_large' = FALSE /\ thumb_valid' = FALSE
        BY <2>1, <2>5, <2>8 DEF ParseTcpOptions, Step, CursorInv
      <3>2. Fits(OptionBytes(pkt), MaxOptions) /\ left - OptionBytes(pkt) = Payload(pkt)
        BY <2>3, <3>1 DEF Fits, MaxOptions, Payload
      <3>3. state' = "parse_opcua_hdr" /\ left' = Payload(pkt)
        BY <2>8, <3>2 DEF ParseTcpOptions, Extract
      <3>. QED  BY <2>2, <2>3, <3>1, <3>3 DEF CursorInv, After
    <2>9. CASE ParseOpcuaHdr
      <3>1. /\ Addressed /\ left = Payload(pkt) /\ Payload(pkt) >= OpcuaHdr
            /\ cert_too_large' = FALSE /\ thumb_valid' = FALSE
        BY <2>1, <2>3, <2>5, <2>9 DEF ParseOpcuaHdr, Step, CursorInv, After
      <3>2. Fits(OpcuaHdr, OpcuaHdr)
        BY <3>1 DEF Fits, OpcuaHdr
      <3>3. CASE pkt.opn
        <4>1. state' = "parse_opcua_security_hdr1" /\ left' = left - 8
          BY <2>9, <3>2, <3>3 DEF ParseOpcuaHdr, Extract, OpcuaHdr
        <4>2. OpenSecureChannel(pkt)
          BY <3>1, <3>3 DEF Addressed, OpenSecureChannel
        <4>3. left' = Payload(pkt) - 8 /\ left' >= 0
          BY <2>3, <3>1, <4>1 DEF OpcuaHdr
        <4>. QED  BY <2>2, <3>1, <4>1, <4>2, <4>3 DEF CursorInv, After
      <3>4. CASE ~pkt.opn
        <4>1. state' = "ingress"
          BY <2>9, <3>2, <3>4 DEF ParseOpcuaHdr, Extract
        <4>2. ~Oversized(pkt) /\ ~Checked(pkt)
          BY <2>0, <3>4, ShortFrame DEF OpenSecureChannel
        <4>. QED  BY <2>0, <3>1, <4>1, <4>2, NothingFound
      <3>. QED  BY <3>3, <3>4
    <2>10. CASE ParseSecurityHdr1
      <3>1. /\ OpenSecureChannel(pkt) /\ left = Payload(pkt) - 8
            /\ cert_too_large' = FALSE /\ thumb_valid' = FALSE
        BY <2>1, <2>5, <2>10 DEF ParseSecurityHdr1, Step, CursorInv, After
      <3>2. CASE Fits(SecurityHdr1, SecurityHdr1)
        <4>1. state' = "parse_opcua_security_hdr2" /\ left' = left - 8 /\ left >= 8
          BY <2>10, <3>2 DEF ParseSecurityHdr1, Extract, Fits, SecurityHdr1
        <4>2. left' = Payload(pkt) - 16 /\ left' >= 0
          BY <2>3, <3>1, <4>1
        <4>. QED  BY <2>2, <3>1, <4>1, <4>2 DEF CursorInv, After
      <3>3. CASE ~Fits(SecurityHdr1, SecurityHdr1)
        <4>1. state' = "ingress" /\ left < 8
          BY <2>3, <2>10, <3>3 DEF ParseSecurityHdr1, Extract, Fits, SecurityHdr1
        <4>2. Payload(pkt) < 16
          BY <2>3, <3>1, <4>1
        <4>3. ~Oversized(pkt) /\ ~Checked(pkt)
          BY <2>0, <2>3, <4>2, TooShort
        <4>. QED  BY <2>0, <3>1, <4>1, <4>3, NothingFound
      <3>. QED  BY <3>2, <3>3
    <2>11. CASE ParseSecurityHdr2
      <3>1. /\ OpenSecureChannel(pkt) /\ left = Payload(pkt) - 16
            /\ cert_too_large' = FALSE /\ thumb_valid' = FALSE
        BY <2>1, <2>5, <2>11 DEF ParseSecurityHdr2, Step, CursorInv, After
      <3>2. pkt.uri \in -1 .. Words29 - 1
        BY <2>1 DEF Regular, WellFormed
      <3>3. CASE Fits(VarbitBytes(pkt.uri), ChunkBytes)
        <4>1. /\ state' = "parse_opcua_security_hdr3" /\ left' = left - VarbitBytes(pkt.uri)
              /\ VarbitBytes(pkt.uri) <= left /\ VarbitBytes(pkt.uri) <= ChunkBytes
          BY <2>11, <3>3 DEF ParseSecurityHdr2, Extract, Fits
        <4>2. VarbitBytes(pkt.uri) = pkt.uri /\ pkt.uri \in 0 .. ChunkBytes
          BY <2>3, <3>2, <4>1, UriFits
        <4>3. left' = Payload(pkt) - (16 + pkt.uri + 0) /\ left' >= 0
          BY <2>3, <3>1, <4>1, <4>2
        <4>. QED  BY <2>0, <2>2, <3>1, <4>1, <4>2, <4>3 DEF CursorInv, Opened, After
      <3>4. CASE ~Fits(VarbitBytes(pkt.uri), ChunkBytes)
        <4>1. state' = "ingress"
          BY <2>11, <3>4 DEF ParseSecurityHdr2, Extract
        <4>2. pkt.uri \notin 0 .. ChunkBytes \/ Payload(pkt) < 20 + pkt.uri
          <5>. SUFFICES ASSUME pkt.uri \in 0 .. ChunkBytes PROVE Payload(pkt) < 20 + pkt.uri
            OBVIOUS
          <5>1. VarbitBytes(pkt.uri) = pkt.uri /\ pkt.uri <= ChunkBytes
            BY <3>2, UriFits
          <5>2. left < pkt.uri
            BY <2>3, <3>4, <5>1 DEF Fits
          <5>. QED  BY <2>3, <3>1, <5>2
        <4>3. ~Oversized(pkt) /\ ~Checked(pkt)
          BY <2>0, <4>2, ShortFrame
        <4>. QED  BY <2>0, <3>1, <4>1, <4>3, NothingFound
      <3>. QED  BY <3>3, <3>4
    <2>12. CASE ParseSecurityHdr3
      <3>1. /\ OpenSecureChannel(pkt) /\ pkt.uri \in 0 .. ChunkBytes
            /\ left = Payload(pkt) - (16 + pkt.uri + 0)
            /\ cert_too_large' = FALSE /\ thumb_valid' = FALSE
        BY <2>1, <2>5, <2>12 DEF ParseSecurityHdr3, Step, CursorInv, Opened, After
      <3>2. CASE ~Fits(CertLengthHdr, CertLengthHdr) \/ pkt.cert = NullCertString
        <4>1. state' = "ingress"
          BY <2>12, <3>2 DEF ParseSecurityHdr3, Extract
        <4>2. pkt.cert = NullCertString \/ Payload(pkt) < 20 + pkt.uri
          BY <2>3, <3>1, <3>2 DEF Fits, CertLengthHdr
        <4>3. ~Oversized(pkt) /\ ~Checked(pkt)
          BY <2>0, <4>2, ShortFrame
        <4>. QED  BY <2>0, <3>1, <4>1, <4>3, NothingFound
      <3>3. CASE Fits(CertLengthHdr, CertLengthHdr) /\ pkt.cert # NullCertString
        <4>1. state' = "check_cert_upper_bound" /\ left' = left - 4 /\ left >= 4
          BY <2>12, <3>3 DEF ParseSecurityHdr3, Extract, Fits, CertLengthHdr
        <4>2. left' = Payload(pkt) - (16 + pkt.uri + 4) /\ left' >= 0
          BY <2>3, <3>1, <4>1
        <4>. QED  BY <2>0, <2>2, <3>1, <3>3, <4>1, <4>2 DEF CursorInv, Opened, After
      <3>. QED  BY <3>2, <3>3
    <2>13. CASE CheckCertUpperBound
      <3>1. /\ OpenSecureChannel(pkt) /\ pkt.uri \in 0 .. ChunkBytes /\ pkt.cert # NullCertString
            /\ left = Payload(pkt) - (16 + pkt.uri + 4) /\ left >= 0
            /\ remaining = pkt.cert /\ UNCHANGED <<left, remaining, thumb_valid>>
        BY <2>1, <2>13 DEF CheckCertUpperBound, Step, CursorInv, Opened, After, Inv, ChunkInv
      <3>2. CASE Exceeds(remaining, MaxCertBytes)
        <4>1. state' = "ingress" /\ cert_too_large' = TRUE /\ thumb_valid' = FALSE
          <5>1. cert_too_large' = Exceeds(remaining, MaxCertBytes)
            BY <2>13 DEF CheckCertUpperBound
          <5>2. Exceeds(remaining, MaxCertBytes) \in BOOLEAN
            BY Zenon DEF Exceeds
          <5>. QED  BY <2>5, <2>13, <3>1, <3>2, <5>1, <5>2, Zenon DEF CheckCertUpperBound
        <4>2. pkt.cert \notin 0 .. MaxCertBytes
          <5>1. MaxCertBytes \in Nat
            BY SMT DEF MaxCertBytes
          <5>. QED  BY <2>3, <3>1, <3>2, <5>1, SMT DEF Exceeds
        <4>3. Payload(pkt) >= 20 + pkt.uri
          BY <2>3, <3>1
        <4>4. Oversized(pkt) /\ ~Checked(pkt)
          BY <2>3, <3>1, <4>2, <4>3 DEF Oversized, Checked, OpcuaHdr, SecurityHdr1, CertLengthHdr
        <4>5. Oversized(pkt)' = TRUE /\ Checked(pkt)' = FALSE
          <5>1. Oversized(pkt)' = Oversized(pkt) /\ Checked(pkt)' = Checked(pkt)
            BY <2>0 DEF Oversized, Checked, OpenSecureChannel, Payload, OptionBytes
          <5>2. Oversized(pkt) \in BOOLEAN /\ Checked(pkt) \in BOOLEAN
            BY Zenon DEF Oversized, Checked
          <5>. QED  BY <4>4, <5>1, <5>2, Zenon
        <4>6. Verdict'
          BY <4>1, <4>5, Zenon DEF Verdict
        <4>. QED  BY <4>1, <4>6, Zenon DEF CursorInv
      <3>3. CASE ~Exceeds(remaining, MaxCertBytes)
        <4>1. /\ state' \in {"parse_certificate", "parse_certificate_ending_part"}
              /\ cert_too_large' = FALSE /\ thumb_valid' = FALSE
          <5>1. cert_too_large' = Exceeds(remaining, MaxCertBytes)
            BY <2>13 DEF CheckCertUpperBound
          <5>2. Exceeds(remaining, MaxCertBytes) \in BOOLEAN
            BY Zenon DEF Exceeds
          <5>3. state' \in {"parse_certificate", "parse_certificate_ending_part"}
            BY <2>13, <3>3 DEF CheckCertUpperBound
          <5>. QED  BY <2>5, <3>1, <3>3, <5>1, <5>2, <5>3, Zenon
        <4>2. remaining >= 0 /\ 4 + pkt.cert - remaining = 4
          BY <2>3, <3>1, <3>3 DEF Exceeds
        <4>3. Opened(4 + pkt.cert - remaining)' /\ remaining' >= 0
          BY <2>0, <2>2, <3>1, <4>2 DEF Opened, After
        <4>. QED  BY <4>1, <4>3 DEF CursorInv
      <3>. QED  BY <3>2, <3>3
    <2>14. CASE ParseCertificate
      <3>1. /\ OpenSecureChannel(pkt) /\ pkt.uri \in 0 .. ChunkBytes /\ remaining >= 0
            /\ left = Payload(pkt) - (16 + pkt.uri + (4 + pkt.cert - remaining)) /\ left >= 0
            /\ pkt.cert \in 0 .. MaxCertBytes /\ remaining >= ChunkBytes /\ chunks < MaxChunks
            /\ cert_too_large' = FALSE /\ thumb_valid' = FALSE
        BY <2>1, <2>5, <2>14
           DEF ParseCertificate, Step, CursorInv, Opened, After, Inv, ChunkInv, ChunkLoopExact
      <3>2. CASE ChunkBytes <= left
        <4>1. /\ state' \in {"parse_certificate", "parse_certificate_ending_part"}
              /\ left' = left - ChunkBytes /\ remaining' = remaining - ChunkBytes
          BY <2>14, <3>1, <3>2 DEF ParseCertificate
        <4>2. /\ left' = Payload(pkt) - (16 + pkt.uri + (4 + pkt.cert - remaining'))
              /\ left' >= 0 /\ remaining' >= 0
          BY <2>3, <3>1, <3>2, <4>1 DEF ChunkBytes
        <4>3. Opened(4 + pkt.cert - remaining)'
          BY <2>0, <2>2, <3>1, <4>2 DEF Opened, After
        <4>. QED  BY <3>1, <4>1, <4>2, <4>3 DEF CursorInv
      <3>3. CASE ~(ChunkBytes <= left)
        <4>1. state' = "ingress"
          BY <2>14, <3>3 DEF ParseCertificate
        <4>2. left < remaining
          BY <2>3, <3>1, <3>3 DEF ChunkBytes
        <4>3. ~Oversized(pkt) /\ ~Checked(pkt)
          BY <2>3, <3>1, <4>2, CutCertificate
        <4>. QED  BY <2>0, <3>1, <4>1, <4>3, NothingFound
      <3>. QED  BY <3>2, <3>3
    <2>15. CASE ParseEndingPart
      <3>1. /\ OpenSecureChannel(pkt) /\ pkt.uri \in 0 .. ChunkBytes /\ remaining >= 0
            /\ left = Payload(pkt) - (16 + pkt.uri + (4 + pkt.cert - remaining)) /\ left >= 0
            /\ pkt.cert \in 0 .. MaxCertBytes /\ remaining < ChunkBytes
            /\ cert_too_large' = FALSE /\ thumb_valid' = FALSE
        BY <2>1, <2>5, <2>15
           DEF ParseEndingPart, Step, CursorInv, Opened, After, Inv, ChunkInv, ChunkLoopExact
      <3>2. VarbitBytes(remaining) = remaining
        <4>1. remaining \in 0 .. ChunkBytes
          BY <2>3, <3>1, SMT DEF ChunkBytes
        <4>. QED  BY <4>1, UriFits
      <3>3. CASE remaining <= left
        <4>1. state' = "parse_opcua_security_hdr6_thumb" /\ left' = left - remaining
          BY <2>3, <2>15, <3>1, <3>2, <3>3 DEF ParseEndingPart, Extract, Fits, ChunkBytes
        <4>2. left' = Payload(pkt) - (16 + pkt.uri + (4 + pkt.cert)) /\ left' >= 0
          BY <2>3, <3>1, <3>3, <4>1
        <4>3. Opened(4 + pkt.cert)'
          BY <2>0, <2>2, <3>1, <4>2 DEF Opened, After
        <4>. QED  BY <2>0, <3>1, <4>1, <4>3 DEF CursorInv
      <3>4. CASE ~(remaining <= left)
        <4>1. state' = "ingress"
          BY <2>15, <3>2, <3>4 DEF ParseEndingPart, Extract, Fits
        <4>2. ~Oversized(pkt) /\ ~Checked(pkt)
          BY <2>3, <3>1, <3>4, CutCertificate
        <4>. QED  BY <2>0, <3>1, <4>1, <4>2, NothingFound
      <3>. QED  BY <3>3, <3>4
    <2>16. CASE ParseThumb
      <3>1. /\ OpenSecureChannel(pkt) /\ pkt.uri \in 0 .. ChunkBytes /\ pkt.cert \in 0 .. MaxCertBytes
            /\ left = Payload(pkt) - (16 + pkt.uri + (4 + pkt.cert))
            /\ cert_too_large' = FALSE
        BY <2>1, <2>5, <2>16 DEF ParseThumb, Step, CursorInv, Opened, After
      <3>2. /\ state' = "ingress" /\ thumb_valid' = Fits(ThumbHdr, ThumbHdr)
        BY <2>16 DEF ParseThumb, Extract
      <3>3. ~Oversized(pkt)
        BY <3>1 DEF Oversized
      <3>4. CASE Fits(ThumbHdr, ThumbHdr)
        <4>1. left >= 24
          BY <3>4 DEF Fits, ThumbHdr
        <4>2. Checked(pkt)
          BY <2>3, <3>1, <4>1 DEF Checked, OpcuaHdr, SecurityHdr1, CertLengthHdr, ThumbHdr
        <4>3. thumb_valid' = TRUE
          <5>1. Fits(ThumbHdr, ThumbHdr) \in BOOLEAN
            BY Zenon DEF Fits
          <5>. QED  BY <3>2, <3>4, <5>1, Zenon
        <4>4. Oversized(pkt)' = FALSE /\ Checked(pkt)' = TRUE
          <5>1. Oversized(pkt)' = Oversized(pkt) /\ Checked(pkt)' = Checked(pkt)
            BY <2>0 DEF Oversized, Checked, OpenSecureChannel, Payload, OptionBytes
          <5>2. Oversized(pkt) \in BOOLEAN /\ Checked(pkt) \in BOOLEAN
            BY Zenon DEF Oversized, Checked
          <5>. QED  BY <3>3, <4>2, <5>1, <5>2, Zenon
        <4>5. Verdict'
          BY <3>1, <4>3, <4>4, Zenon DEF Verdict
        <4>. QED  BY <3>2, <4>5, Zenon DEF CursorInv
      <3>5. CASE ~Fits(ThumbHdr, ThumbHdr)
        <4>1. left < 24
          BY <2>3, <3>5 DEF Fits, ThumbHdr
        <4>2. ~Checked(pkt)
          BY <2>3, <3>1, <4>1 DEF Checked, OpcuaHdr, SecurityHdr1, CertLengthHdr, ThumbHdr
        <4>3. thumb_valid' = FALSE
          <5>1. Fits(ThumbHdr, ThumbHdr) \in BOOLEAN
            BY Zenon DEF Fits
          <5>. QED  BY <3>2, <3>5, <5>1, Zenon
        <4>. QED  BY <2>0, <3>1, <3>2, <3>3, <4>2, <4>3, NothingFound
      <3>. QED  BY <3>4, <3>5
    <2>. QED
      BY <1>4, <2>6, <2>7, <2>8, <2>9, <2>10, <2>11, <2>12, <2>13, <2>14, <2>15, <2>16 DEF ParserStep
  <1>. QED  BY <1>1, <1>2, <1>3, <1>4 DEF Next

\* The decision about every frame an IP stack builds, of every size but the few
\* that payload_length takes for shorter than an OPC UA header, is the one the
\* message and the tables call for (opcua_extraction.p4).
THEOREM DecisionAlwaysAsMeant == Spec => DecisionAsMeant
  <1>1. Init => CursorInv
    BY DEF Init, CursorInv
  <1>2. Inv /\ CursorInv /\ [Next]_vars => CursorInv'
    BY CursorStep
  <1>3. ASSUME CursorInv, Ingress, Regular PROVE egress' = Decision(pkt)
    <2>1. cert_too_large = Oversized(pkt) /\ thumb_valid = Checked(pkt)
      BY <1>3 DEF Ingress, CursorInv, Verdict
    <2>2. egress' = IF \/ pkt.dst \notin dmac_forward
                       \/ cert_too_large
                       \/ thumb_valid /\ pkt.thumb \notin thumbprint_table
                    THEN "drop" ELSE "forward"
      BY <1>3 DEF Ingress
    <2>. QED  BY <2>1, <2>2, Zenon DEF Decision
  <1>4. Inv /\ CursorInv /\ [Next]_vars =>
          [Ingress /\ WellFormed(pkt) /\ LengthFits(pkt) => egress' = Decision(pkt)]_vars
    BY <1>3 DEF Regular
  <1>. QED  BY <1>1, <1>2, <1>4, InitInv, InvStep, PTL DEF Spec, DecisionAsMeant

=============================================================================
