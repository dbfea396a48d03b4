-------------------------- MODULE OpcuaExtraction --------------------------
(***************************************************************************)
(* The P4 switch that checks OPC UA OpenSecureChannel messages:            *)
(* opcua_extraction.p4, its parser (one action per parser state that       *)
(* extracts or branches) and its ingress control, with the two             *)
(* match-action tables the control plane edits while packets flow.         *)
(*                                                                         *)
(* A packet is the few numbers the parser reads.  Lengths are bytes; the   *)
(* parser computes in bits, on 16 and 32 bit words, and so does the model. *)
(* An extraction past the end of the frame, or of a varbit longer than its *)
(* header allows, is a parser error: BMv2 leaves that header invalid and   *)
(* hands the packet to ingress.                                            *)
(***************************************************************************)
EXTENDS Integers, FiniteSets

CONSTANTS
  Packets,      \* frames that may arrive: a subset of Packet
  Thumbs,       \* certificate thumbprints (SHA-1, 160 bits)
  NoThumb,      \* what the 160 bits read as in a message without thumbprint
  Macs,         \* destination addresses
  TableSize     \* entries thumbprint_table holds (1024)

ASSUME NoThumbAssumption == NoThumb \notin Thumbs
ASSUME TableSizeAssumption == TableSize \in Nat

VARIABLES
  pkt,              \* the frame in the pipeline
  state,            \* parser state; "ingress", then "idle" when it has left
  left,             \* bytes of the frame after the parser's cursor
  remaining,        \* certificate bytes not extracted yet
  chunks,           \* elements of opcuaSenderCertificate extracted
  cert_too_large,   \* user metadata
  thumb_valid,      \* hdr.opcua_security_hdr_thumb.isValid()
  egress,           \* what ingress decided for pkt
  thumbprint_table, \* thumbprints with action NoAction
  dmac_forward      \* destination addresses with a port

parser == <<state, left, remaining, chunks, cert_too_large, thumb_valid>>
tables == <<thumbprint_table, dmac_forward>>
vars == <<pkt, parser, egress, tables>>

-----------------------------------------------------------------------------
(* Header sizes in bytes and the constants of the program.                 *)

Bits16 == 65536
Words29 == 536870912      \* 2^29
MaxInt32 == 2147483647
Int32 == -MaxInt32 - 1 .. MaxInt32

OpcuaHdr == 8
SecurityHdr1 == 8
CertLengthHdr == 4
ThumbHdr == 24            \* length and 160 bits of thumbprint
MaxOptions == 40          \* varbit<320>
ChunkBytes == 256         \* bit<2048>, and the limit of both varbit<2048>
MaxChunks == 100
\* Mutant of MaxCertBytes: MAX_CHUNKS whole chunks and one more.
MaxCertBytesPlusOne == 25856

MaxCertBytes == 25855
NullCertString == -1

\* bytes counts TCP options and payload.  uri and cert are the two length
\* fields of the message as the parser decodes them (little endian); the
\* parser reads them as unsigned words, where a negative one is above all.
Packet ==
  [ipv4 : BOOLEAN, tcp : BOOLEAN, port : BOOLEAN, opn : BOOLEAN,
   dst : Macs, dataOffset : 5 .. 15, bytes : 0 .. Bits16 - 41,
   uri : Int32, cert : Int32, thumb : Thumbs \union {NoThumb}]

ASSUME PacketsAssumption == Packets \subseteq Packet

totalLen(p) == p.bytes + 40
OptionBytes(p) == 4 * p.dataOffset - 20
Payload(p) == p.bytes - OptionBytes(p)

\* parse_tcp: bit<16> arithmetic.
full_length(p) == ((totalLen(p) - 20) * 8) % Bits16
header_length(p) == p.dataOffset * 32
payload_length(p) == (full_length(p) - header_length(p)) % Bits16

\* On 32 bits n * 8 is 8 * (n % 2^29): the bytes a varbit of n * 8 bits takes.
VarbitBytes(n) == n % Words29

\* n > m for unsigned 32 bit n and a small m.
Exceeds(n, m) == n < 0 \/ n > m

-----------------------------------------------------------------------------
(* The parser.                                                             *)

Goto(s) == state' = s /\ UNCHANGED <<left, remaining, chunks, cert_too_large, thumb_valid>>

\* packet.extract of n bytes, limit being the room of the header.
Fits(n, limit) == n <= left /\ n <= limit

Extract(n, limit, s) ==
  /\ state' = IF Fits(n, limit) THEN s ELSE "ingress"
  /\ left' = IF Fits(n, limit) THEN left - n ELSE left

Step(s) == state = s /\ UNCHANGED <<pkt, egress, tables>>

\* A frame arrives and the start state clears the metadata.
PacketIn ==
  /\ state = "idle"
  /\ \E p \in Packets :
       /\ pkt' = p
       /\ left' = p.bytes
  /\ state' = "parse_ethernet"
  /\ egress' = "undecided"
  /\ remaining' = 0 /\ chunks' = 0
  /\ cert_too_large' = FALSE /\ thumb_valid' = FALSE
  /\ UNCHANGED tables

\* parse_ethernet, parse_ipv4 and parse_tcp up to its select.
ParseHeaders ==
  /\ Step("parse_ethernet")
  /\ Goto(IF pkt.ipv4 /\ pkt.tcp /\ payload_length(pkt) # 0
          THEN "maybe_parse_opcua" ELSE "ingress")

\* maybe_parse_opcua, check_src_port, check_opcua_payload_length.
MaybeParseOpcua ==
  /\ Step("maybe_parse_opcua")
  /\ Goto(IF pkt.port /\ payload_length(pkt) >= 8 * OpcuaHdr
          THEN "parse_tcp_options" ELSE "ingress")

\* parse_opcua_after_options skips the extraction of zero options.
ParseTcpOptions ==
  /\ Step("parse_tcp_options")
  /\ Extract(OptionBytes(pkt), MaxOptions, "parse_opcua_hdr")
  /\ UNCHANGED <<remaining, chunks, cert_too_large, thumb_valid>>

ParseOpcuaHdr ==
  /\ Step("parse_opcua_hdr")
  /\ Extract(OpcuaHdr, OpcuaHdr, IF pkt.opn THEN "parse_opcua_security_hdr1" ELSE "ingress")
  /\ UNCHANGED <<remaining, chunks, cert_too_large, thumb_valid>>

ParseSecurityHdr1 ==
  /\ Step("parse_opcua_security_hdr1")
  /\ Extract(SecurityHdr1, SecurityHdr1, "parse_opcua_security_hdr2")
  /\ UNCHANGED <<remaining, chunks, cert_too_large, thumb_valid>>

ParseSecurityHdr2 ==
  /\ Step("parse_opcua_security_hdr2")
  /\ Extract(VarbitBytes(pkt.uri), ChunkBytes, "parse_opcua_security_hdr3")
  /\ UNCHANGED <<remaining, chunks, cert_too_large, thumb_valid>>

ParseSecurityHdr3 ==
  /\ Step("parse_opcua_security_hdr3")
  /\ Extract(CertLengthHdr, CertLengthHdr,
             IF pkt.cert = NullCertString THEN "ingress" ELSE "check_cert_upper_bound")
  /\ remaining' = IF Fits(CertLengthHdr, CertLengthHdr) THEN pkt.cert ELSE remaining
  /\ UNCHANGED <<chunks, cert_too_large, thumb_valid>>

\* check_cert_upper_bound, mark_certificate_too_large and check_cert_length.
CheckCertUpperBound ==
  /\ Step("check_cert_upper_bound")
  /\ cert_too_large' = Exceeds(remaining, MaxCertBytes)
  /\ state' = IF Exceeds(remaining, MaxCertBytes) THEN "ingress"
              ELSE IF Exceeds(remaining, 255) THEN "parse_certificate"
              ELSE "parse_certificate_ending_part"
  /\ UNCHANGED <<left, remaining, chunks, thumb_valid>>

\* One element of the header stack per step; a full stack is a parser error.
ParseCertificate ==
  /\ Step("parse_certificate")
  /\ IF chunks < MaxChunks /\ ChunkBytes <= left
     THEN /\ left' = left - ChunkBytes
          /\ chunks' = chunks + 1
          /\ remaining' = remaining - ChunkBytes
          /\ state' = IF Exceeds(remaining', 255) THEN "parse_certificate"
                      ELSE "parse_certificate_ending_part"
     ELSE /\ state' = "ingress"
          /\ UNCHANGED <<left, chunks, remaining>>
  /\ UNCHANGED <<cert_too_large, thumb_valid>>

\* Mutant of ParseEndingPart: the length passed in bytes where bits are meant.
ParseEndingPartInBits ==
  /\ Step("parse_certificate_ending_part")
  /\ Extract(VarbitBytes(remaining) \div 8, ChunkBytes, "parse_opcua_security_hdr6_thumb")
  /\ UNCHANGED <<remaining, chunks, cert_too_large, thumb_valid>>

\* parse_certificate_ending_part and parse_certificate_only_ending_part:
\* without chunks remaining is still cert_bytes.
ParseEndingPart ==
  /\ Step("parse_certificate_ending_part")
  /\ Extract(VarbitBytes(remaining), ChunkBytes, "parse_opcua_security_hdr6_thumb")
  /\ UNCHANGED <<remaining, chunks, cert_too_large, thumb_valid>>

\* Mutant of ParseThumb: waits for the rest of a segmented message.
ParseThumbWaits ==
  /\ Step("parse_opcua_security_hdr6_thumb")
  /\ Fits(ThumbHdr, ThumbHdr)
  /\ Extract(ThumbHdr, ThumbHdr, "ingress")
  /\ thumb_valid' = TRUE
  /\ UNCHANGED <<remaining, chunks, cert_too_large>>

ParseThumb ==
  /\ Step("parse_opcua_security_hdr6_thumb")
  /\ Extract(ThumbHdr, ThumbHdr, "ingress")
  /\ thumb_valid' = Fits(ThumbHdr, ThumbHdr)
  /\ UNCHANGED <<remaining, chunks, cert_too_large>>

-----------------------------------------------------------------------------
(* Ingress and control plane.                                              *)

\* dmac_forward, then the oversize check, then thumbprint_table.  NoAction
\* keeps the port dmac_forward chose, and with it a drop.
Ingress ==
  /\ state = "ingress"
  /\ egress' = IF \/ pkt.dst \notin dmac_forward
                  \/ cert_too_large
                  \/ thumb_valid /\ pkt.thumb \notin thumbprint_table
               THEN "drop" ELSE "forward"
  /\ state' = "idle"
  /\ UNCHANGED <<pkt, left, remaining, chunks, cert_too_large, thumb_valid, tables>>

\* Mutant of TableAdd: the thumbprint is learned from the frame in flight.
TableAddFromTraffic(t) ==
  /\ t \notin thumbprint_table
  /\ Cardinality(thumbprint_table) < TableSize
  /\ thumbprint_table' = thumbprint_table \union {pkt.thumb}
  /\ UNCHANGED <<pkt, parser, egress, dmac_forward>>

\* simple_switch_CLI: table_add thumbprint_table NoAction t.  A duplicate or
\* a full table makes the command fail.
TableAdd(t) ==
  /\ t \notin thumbprint_table
  /\ Cardinality(thumbprint_table) < TableSize
  /\ thumbprint_table' = thumbprint_table \union {t}
  /\ UNCHANGED <<pkt, parser, egress, dmac_forward>>

\* simple_switch_CLI: table_clear thumbprint_table.
TableClear ==
  /\ thumbprint_table' = {}
  /\ UNCHANGED <<pkt, parser, egress, dmac_forward>>

\* Startup commands fill dmac_forward before traffic; the thumbprint table
\* is empty until a script programs it.
Init ==
  /\ pkt \in Packets
  /\ state = "idle" /\ left = 0 /\ remaining = 0 /\ chunks = 0
  /\ cert_too_large = FALSE /\ thumb_valid = FALSE
  /\ egress = "drop"
  /\ thumbprint_table = {}
  /\ dmac_forward \in SUBSET Macs

ParserStep ==
  \/ ParseHeaders \/ MaybeParseOpcua \/ ParseTcpOptions \/ ParseOpcuaHdr
  \/ ParseSecurityHdr1 \/ ParseSecurityHdr2 \/ ParseSecurityHdr3
  \/ CheckCertUpperBound \/ ParseCertificate \/ ParseEndingPart \/ ParseThumb

Next ==
  \/ PacketIn
  \/ ParserStep
  \/ Ingress
  \/ \E t \in Thumbs : TableAdd(t)
  \/ TableClear

\* The switch's own steps are fair: its thread never abandons a packet.
Spec == Init /\ [][Next]_vars /\ WF_vars(ParserStep \/ Ingress)

-----------------------------------------------------------------------------
(* What the switch is for, in plain integers: no words, no parser states.  *)

OpenSecureChannel(p) == p.ipv4 /\ p.tcp /\ p.port /\ p.opn

\* The frame holds the message up to the end of its thumbprint, and it
\* carries a certificate of a size the switch supports.
Checked(p) ==
  /\ OpenSecureChannel(p)
  /\ p.uri \in 0 .. ChunkBytes
  /\ p.cert \in 0 .. MaxCertBytes
  /\ Payload(p) >= OpcuaHdr + SecurityHdr1 + p.uri + CertLengthHdr + p.cert + ThumbHdr

\* The frame announces a certificate larger than that.
Oversized(p) ==
  /\ OpenSecureChannel(p)
  /\ p.uri \in 0 .. ChunkBytes
  /\ p.cert # NullCertString /\ p.cert \notin 0 .. MaxCertBytes
  /\ Payload(p) >= OpcuaHdr + SecurityHdr1 + p.uri + CertLengthHdr

\* Frames without certificate, other messages and OPN messages cut by TCP
\* segmentation pass: the switch has no reassembly.
Decision(p) ==
  IF \/ p.dst \notin dmac_forward
     \/ Oversized(p)
     \/ Checked(p) /\ p.thumb \notin thumbprint_table
  THEN "drop" ELSE "forward"

\* A frame an IP stack builds: the TCP options fit in it, and the URI is
\* null or shorter than half a gigabyte.
WellFormed(p) == Payload(p) >= 0 /\ p.uri \in -1 .. Words29 - 1

\* payload_length counts bits in 16 of them, so it is the payload's size
\* modulo 8192 bytes.  This excludes payloads it takes for shorter than an
\* OPC UA header.
LengthFits(p) == Payload(p) >= OpcuaHdr => Payload(p) % 8192 >= OpcuaHdr

-----------------------------------------------------------------------------
(* Properties.                                                             *)

States == {"idle", "parse_ethernet", "maybe_parse_opcua", "parse_tcp_options",
           "parse_opcua_hdr", "parse_opcua_security_hdr1", "parse_opcua_security_hdr2",
           "parse_opcua_security_hdr3", "check_cert_upper_bound", "parse_certificate",
           "parse_certificate_ending_part", "parse_opcua_security_hdr6_thumb", "ingress"}

\* Every variable stays in its type.
TypeOK ==
  /\ pkt \in Packets
  /\ state \in States
  /\ left \in 0 .. Bits16
  /\ remaining \in Int32
  /\ chunks \in 0 .. MaxChunks
  /\ cert_too_large \in BOOLEAN /\ thumb_valid \in BOOLEAN
  /\ egress \in {"undecided", "drop", "forward"}
  /\ thumbprint_table \subseteq Thumbs
  /\ dmac_forward \subseteq Macs

\* The chunk loop accounts for every certificate byte: what it extracted and
\* what remains add up to the announced length, it is entered only with a
\* whole chunk to extract and a free place in the header stack (so the upper
\* bound check leaves no certificate the stack cannot hold), and what it
\* leaves fits the final varbit header.
ChunkLoopExact ==
  /\ state \in {"parse_certificate", "parse_certificate_ending_part"}
       => chunks * ChunkBytes + remaining = pkt.cert
  /\ state = "parse_certificate" => remaining >= ChunkBytes /\ chunks < MaxChunks
  /\ state = "parse_certificate_ending_part" => remaining < ChunkBytes

\* The parser's words, branches and errors together decide about every well
\* formed frame what the tables at that moment and the message say: a listed
\* thumbprint is required exactly of the messages with a certificate that
\* fit the frame, and nothing else is dropped for its content.
DecisionAsMeant ==
  [][Ingress /\ WellFormed(pkt) /\ LengthFits(pkt) => egress' = Decision(pkt)]_vars

\* The same without the exclusion: the program's own bound MAX_CERT_BYTES
\* says that messages with certificates of up to 25855 bytes are checked.
DecisionAsMeantForEverySize ==
  [][Ingress /\ WellFormed(pkt) => egress' = Decision(pkt)]_vars

\* The chunk loop ends and every packet gets a decision.
EveryPacketDecided == egress = "undecided" ~> egress # "undecided"
=============================================================================
