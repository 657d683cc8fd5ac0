-------------------------------- MODULE Wire --------------------------------
(***************************************************************************)
(* The messages of the peer-to-peer protocol and their bytes: the           *)
(* serialization helpers and parse_message of qubitcoin-net connection.rs,  *)
(* MessageHeader, ServiceFlags and InvType of protocol.rs.                  *)
(*                                                                          *)
(*   mail    a message, its command and its payload on the way              *)
(*                                                                          *)
(* A payload is a sequence of bytes with the widths of the code. Numbers of *)
(* a fixed width stay the bytes they are written as; only counts are        *)
(* computed with. A slice outside of the payload is a panic.                *)
(***************************************************************************)
EXTENDS Integers, Sequences, FiniteSets, SequencesExt, FiniteSetsExt

CONSTANTS MAX_PAYLOAD_SIZE, MaxDamage

VARIABLE mail

-----------------------------------------------------------------------------
(* Bytes.                                                                   *)

Panic == <<-1>>
\* data[from .. to] of the code, with both ends counted from 0.
Slice(data, from, to) == IF from <= to /\ to <= Len(data) THEN SubSeq(data, from + 1, to) ELSE Panic
Zeros(n) == [i \in 1 .. n |-> 0]
Field(v, width) == [i \in 1 .. width |-> IF i = 1 THEN v ELSE 0]
Concat(seqs) == FoldLeft(LAMBDA s, t : s \o t, << >>, seqs)

\* A little-endian number; what does not fit into 31 bits is larger than every limit.
Huge == 2147483647
FromLE(b) ==
    IF (\E i \in 5 .. Len(b) : b[i] # 0) \/ (Len(b) >= 4 /\ b[4] >= 128) THEN Huge
    ELSE FoldRight(LAMBDA x, n : n * 256 + x, SubSeq(b, 1, IF Len(b) < 4 THEN Len(b) ELSE 4), 0)

write_varint(n) == IF n < 253 THEN <<n>> ELSE <<253, n % 256, n \div 256>>

\* read_varint: the value and its width, or nothing; nothing either above MAX_PAYLOAD_SIZE.
None == [some |-> FALSE, val |-> 0, size |-> 0]
Some(val, size) == [some |-> TRUE, val |-> val, size |-> size]
read_varint(data) ==
    IF data = << >> THEN None
    ELSE LET width == CASE data[1] = 253 -> 3 [] data[1] = 254 -> 5 [] data[1] = 255 -> 9 [] OTHER -> 1
             n == FromLE(SubSeq(data, 2, width))
         IN IF width = 1 THEN Some(data[1], 1)
            ELSE IF Len(data) < width \/ n > MAX_PAYLOAD_SIZE THEN None
            ELSE Some(n, width)

-----------------------------------------------------------------------------
(* Addresses and service flags.                                             *)

Bit(n, k) == (n \div 2 ^ k) % 2
KnownBits(n, ks) == FoldSet(LAMBDA k, s : s + Bit(n, k) * 2 ^ k, 0, ks)
from_bits_truncate(b) == <<KnownBits(b[1], {0, 2, 3, 6}), KnownBits(b[2], {2, 3})>> \o Zeros(6)

MappedPrefix == Zeros(10) \o <<255, 255>>
NetAddress(services, v4, ip, port) == [services |-> services, v4 |-> v4, ip |-> ip, port |-> port]
serialize_net_address(a) == a.services \o (IF a.v4 THEN MappedPrefix ELSE << >>) \o a.ip \o a.port
deserialize_net_address(data) ==
    LET ip == Slice(data, 8, 24)
        v4 == Slice(data, 8, 20) = MappedPrefix
    IN NetAddress(from_bits_truncate(Slice(data, 0, 8)), v4, IF v4 THEN Slice(data, 20, 24) ELSE ip, Slice(data, 24, 26))

-----------------------------------------------------------------------------
(* Version messages.                                                        *)

Unknown(command, payload) == [msg |-> "unknown", command |-> command, payload |-> payload]
serialize_version(m) ==
    m.version \o m.services \o m.timestamp \o serialize_net_address(m.recv) \o serialize_net_address(m.from)
        \o m.nonce \o write_varint(Len(m.agent)) \o m.agent \o m.height \o <<IF m.relay THEN 1 ELSE 0>>

Bug_deserialize_version(data) ==
    LET ua == read_varint(SubSeq(data, 81, Len(data)))
        start == 80 + ua.size
        end == start + ua.val
    IN IF Len(data) < 72 \/ ~ua.some \/ Len(data) < end THEN Unknown("version", data)
       ELSE [msg |-> "version", version |-> Slice(data, 0, 4), services |-> from_bits_truncate(Slice(data, 4, 12)),
             timestamp |-> Slice(data, 12, 20), recv |-> deserialize_net_address(Slice(data, 20, 46)),
             from |-> deserialize_net_address(Slice(data, 46, 72)), nonce |-> Slice(data, 72, 80),
             agent |-> Slice(data, start, end), height |-> Slice(data, end, end + 4),
             relay |-> IF Len(data) > end + 4 THEN data[end + 5] # 0 ELSE TRUE]
deserialize_version(data) ==
    LET ua == read_varint(SubSeq(data, 81, Len(data)))
        start == 80 + ua.size
        end == start + ua.val
    IN IF Len(data) < 80 \/ ~ua.some \/ Len(data) < end + 4 THEN Unknown("version", data)
       ELSE [msg |-> "version", version |-> Slice(data, 0, 4), services |-> from_bits_truncate(Slice(data, 4, 12)),
             timestamp |-> Slice(data, 12, 20), recv |-> deserialize_net_address(Slice(data, 20, 46)),
             from |-> deserialize_net_address(Slice(data, 46, 72)), nonce |-> Slice(data, 72, 80),
             agent |-> Slice(data, start, end), height |-> Slice(data, end, end + 4),
             relay |-> IF Len(data) > end + 4 THEN data[end + 5] # 0 ELSE TRUE]

-----------------------------------------------------------------------------
(* Lists: a count and entries of a fixed width, as many as are there.       *)

Entries(data, pos, count, width) ==
    LET there == (Len(data) - pos) \div width
        n == IF count < there THEN count ELSE there
    IN [i \in 1 .. n |-> Slice(data, pos + width * (i - 1), pos + width * i)]
List(data, width) ==
    LET n == read_varint(data) IN IF n.some THEN Entries(data, n.size, n.val, width) ELSE << >>

from_u32(b) ==
    IF b[2] = 0 /\ b[3] = 0 /\ ((b[4] = 0 /\ b[1] <= 5) \/ (b[4] = 64 /\ b[1] \in 1 .. 3)) THEN b ELSE Zeros(4)
parse_inv_list(data) ==
    LET es == List(data, 36)
    IN [i \in DOMAIN es |-> [type |-> from_u32(Slice(es[i], 0, 4)), hash |-> Slice(es[i], 4, 36)]]
serialize_inv_list(inv) == write_varint(Len(inv)) \o Concat([i \in DOMAIN inv |-> inv[i].type \o inv[i].hash])
parse_headers_payload(data) ==
    LET es == List(data, 81) IN [i \in DOMAIN es |-> [header |-> Slice(es[i], 0, 80)]]
Bug_serialize_headers(hs) == write_varint(Len(hs)) \o Concat([i \in DOMAIN hs |-> hs[i].header])
serialize_headers(hs) == write_varint(Len(hs)) \o Concat([i \in DOMAIN hs |-> hs[i].header \o <<0>>])
parse_addr_list(data) ==
    LET es == List(data, 30)
    IN [i \in DOMAIN es |-> [time |-> Slice(es[i], 0, 4), addr |-> deserialize_net_address(Slice(es[i], 4, 30))]]
serialize_addr_list(as) ==
    write_varint(Len(as)) \o Concat([i \in DOMAIN as |-> as[i].time \o serialize_net_address(as[i].addr)])

\* getheaders and getblocks: the hash to stop at is zero when it is not there.
Bug_parse_locator(command, data) ==
    LET n == read_varint(SubSeq(data, 5, Len(data)))
        es == Entries(data, 4 + n.size, n.val, 32)
        pos == 4 + n.size + 32 * Len(es)
    IN IF Len(data) < 4 \/ ~n.some THEN Unknown(command, data)
       ELSE [msg |-> command, version |-> Slice(data, 0, 4), locators |-> es,
             stop |-> IF Len(data) >= pos /\ Len(data) >= 36 THEN Slice(data, Len(data) - 32, Len(data)) ELSE Zeros(32)]
parse_locator(command, data) ==
    LET n == read_varint(SubSeq(data, 5, Len(data)))
        es == Entries(data, 4 + n.size, n.val, 32)
        pos == 4 + n.size + 32 * Len(es)
    IN IF Len(data) < 4 \/ ~n.some THEN Unknown(command, data)
       ELSE [msg |-> command, version |-> Slice(data, 0, 4), locators |-> es,
             stop |-> IF pos + 32 <= Len(data) THEN Slice(data, pos, pos + 32) ELSE Zeros(32)]

parse_reject(data) ==
    LET m == read_varint(data)
        end == m.size + m.val
        r == read_varint(SubSeq(data, end + 2, Len(data)))
        from == end + 1 + r.size
        to == IF from + r.val < Len(data) THEN from + r.val ELSE Len(data)
    IN IF ~m.some \/ end >= Len(data) THEN Unknown("reject", data)
       ELSE [msg |-> "reject", message |-> Slice(data, m.size, end), code |-> data[end + 1],
             reason |-> IF end + 1 < Len(data) /\ r.some THEN Slice(data, from, to) ELSE << >>]

-----------------------------------------------------------------------------
(* parse_message, serialize_message and command.                            *)

Bare == {"verack", "getaddr", "sendheaders", "wtxidrelay", "sendaddrv2", "filterclear", "mempool"}
Raw == {"block", "tx", "cmpctblock", "getblocktxn", "blocktxn", "filterload", "filteradd", "merkleblock",
        "addrv2", "cfheaders", "cfilter", "cfcheckpt"}
OneNumber == {"ping", "pong", "feefilter"}
Inventories == {"inv", "getdata", "notfound"}
Locators == {"getheaders", "getblocks"}
Filters == {"getcfheaders", "getcfilters"}
Commands == Bare \cup Raw \cup OneNumber \cup Inventories \cup Locators \cup Filters
            \cup {"version", "sendtxrcncl", "headers", "sendcmpct", "getcfcheckpt", "addr", "reject"}

parse_message(command, data) ==
    LET Least(n, message) == IF Len(data) >= n THEN message ELSE Unknown(command, data)
    IN CASE command = "version" -> deserialize_version(data)
         [] command \in Bare -> [msg |-> command]
         [] command \in Raw -> [msg |-> command, data |-> data]
         [] command \in OneNumber -> [msg |-> command, n |-> IF Len(data) >= 8 THEN Slice(data, 0, 8) ELSE Zeros(8)]
         [] command \in Inventories -> [msg |-> command, items |-> parse_inv_list(data)]
         [] command = "headers" -> [msg |-> command, items |-> parse_headers_payload(data)]
         [] command = "addr" -> [msg |-> command, items |-> parse_addr_list(data)]
         [] command \in Locators -> parse_locator(command, data)
         [] command = "reject" -> parse_reject(data)
         [] command = "sendtxrcncl" -> Least(12, [msg |-> command, version |-> Slice(data, 0, 4), salt |-> Slice(data, 4, 12)])
         [] command = "sendcmpct" -> Least(9, [msg |-> command, announce |-> Slice(data, 0, 1) # <<0>>, version |-> Slice(data, 1, 9)])
         [] command \in Filters ->
              Least(37, [msg |-> command, type |-> Slice(data, 0, 1), start |-> Slice(data, 1, 5), stop |-> Slice(data, 5, 37)])
         [] command = "getcfcheckpt" -> Least(33, [msg |-> command, type |-> Slice(data, 0, 1), stop |-> Slice(data, 1, 33)])
         [] OTHER -> Unknown(command, data)

command_of(m) == IF m.msg = "unknown" THEN m.command ELSE m.msg
serialize_message(m) ==
    CASE m.msg = "version" -> serialize_version(m)
      [] m.msg \in Bare -> << >>
      [] m.msg \in Raw -> m.data
      [] m.msg \in OneNumber -> m.n
      [] m.msg \in Inventories -> serialize_inv_list(m.items)
      [] m.msg = "headers" -> serialize_headers(m.items)
      [] m.msg = "addr" -> serialize_addr_list(m.items)
      [] m.msg \in Locators -> m.version \o write_varint(Len(m.locators)) \o Concat(m.locators) \o m.stop
      [] m.msg = "reject" ->
           write_varint(Len(m.message)) \o m.message \o <<m.code>> \o write_varint(Len(m.reason)) \o m.reason
      [] m.msg = "sendtxrcncl" -> m.version \o m.salt
      [] m.msg = "sendcmpct" -> <<IF m.announce THEN 1 ELSE 0>> \o m.version
      [] m.msg \in Filters -> m.type \o m.start \o m.stop
      [] m.msg = "getcfcheckpt" -> m.type \o m.stop
      [] OTHER -> m.payload

-----------------------------------------------------------------------------
(* Message headers. A letter of a command is the command and its place.     *)

Padding == [of |-> "", at |-> 0]
CommandBytes(c) == [i \in 1 .. 12 |-> IF i <= Len(c) THEN [of |-> c, at |-> i] ELSE Padding]
Checksum(payload) == <<[of |-> payload, at |-> 1], [of |-> payload, at |-> 2], [of |-> payload, at |-> 3], [of |-> payload, at |-> 4]>>
SizeBytes(n) == <<n % 256, (n \div 256) % 256, n \div 65536, 0>>
MessageHeader(magic, command, payload) ==
    [magic |-> magic, command |-> CommandBytes(command), size |-> Len(payload), checksum |-> Checksum(payload)]
serialize_header(h) == h.magic \o h.command \o SizeBytes(h.size) \o h.checksum
deserialize_header(b) ==
    [magic |-> Slice(b, 0, 4), command |-> Slice(b, 4, 16), size |-> FromLE(Slice(b, 16, 20)), checksum |-> Slice(b, 20, 24)]
command_str(h) ==
    LET ends == {i \in 1 .. 12 : h.command[i] = Padding}
        end == IF ends = {} THEN 12 ELSE Min(ends) - 1
    IN IF end = 0 THEN "" ELSE h.command[1].of
verify_checksum(h, payload) == h.checksum = Checksum(payload)

-----------------------------------------------------------------------------
(* Messages, and what may happen to their payloads.                         *)

Hash(v) == [i \in 1 .. 32 |-> v]
Addr4 == NetAddress(Field(9, 8), TRUE, <<10, 0, 0, 1>>, <<32, 141>>)
Addr6 == NetAddress(Field(0, 8), FALSE, <<32, 1>> \o Zeros(13) \o <<1>>, <<0, 80>>)
Inv(type, v) == [type |-> type, hash |-> Hash(v)]
Version(agent, relay) ==
    [msg |-> "version", version |-> Field(128, 4), services |-> Field(9, 8), timestamp |-> Field(3, 8), recv |-> Addr6,
     from |-> Addr4, nonce |-> Field(5, 8), agent |-> agent, height |-> Field(7, 4), relay |-> relay]
Agent == <<47, 113, 47>>
Messages ==
    {[msg |-> c] : c \in Bare} \cup {[msg |-> c, n |-> Field(7, 8)] : c \in OneNumber}
    \cup {[msg |-> c, data |-> <<1, 2, 3>>] : c \in Raw}
    \cup {[msg |-> c, items |-> <<Inv(<<1, 0, 0, 0>>, 1), Inv(<<2, 0, 0, 64>>, 2)>>] : c \in Inventories}
    \cup {[msg |-> c, version |-> Field(1, 4), locators |-> <<Hash(1), Hash(2)>>, stop |-> Hash(3)] : c \in Locators}
    \cup {[msg |-> c, type |-> <<0>>, start |-> Field(4, 4), stop |-> Hash(4)] : c \in Filters}
    \cup {Version(Agent, FALSE), Version(<< >>, TRUE),
          [msg |-> "headers", items |-> <<[header |-> [i \in 1 .. 80 |-> 1]], [header |-> [i \in 1 .. 80 |-> 2]]>>],
          [msg |-> "addr", items |-> <<[time |-> Field(1, 4), addr |-> Addr4], [time |-> Field(2, 4), addr |-> Addr6]>>],
          [msg |-> "reject", message |-> <<1, 2>>, code |-> 16, reason |-> <<3>>],
          [msg |-> "sendtxrcncl", version |-> Field(1, 4), salt |-> Field(2, 8)],
          [msg |-> "sendcmpct", announce |-> TRUE, version |-> Field(2, 8)],
          [msg |-> "getcfcheckpt", type |-> <<0>>, stop |-> Hash(4)],
          Unknown("xyz", <<1>>)}

Init == mail = [sent |-> Unknown("xyz", << >>), payload |-> << >>, how |-> "none", damage |-> 0]
Send == mail.how = "none" /\ \E m \in Messages :
    mail' = [sent |-> m, payload |-> serialize_message(m), how |-> "sent", damage |-> 0]
\* The sender stops early.
Cut == mail.how = "sent" /\ \E n \in 0 .. Len(mail.payload) - 1 :
    mail' = [mail EXCEPT !.payload = SubSeq(@, 1, n), !.how = "cut"]
\* A byte is a count of any width and size.
Counts == {<<0>>, <<252>>, <<253, 3, 0>>, <<253, 255, 255>>, <<254, 0, 9, 61, 0>>, <<254, 1, 9, 61, 0>>,
           [i \in 1 .. 9 |-> 255], <<255, 1>> \o Zeros(7), <<255>>, <<254, 0>>}
Recount ==
    /\ mail.how \in {"sent", "recounted"} /\ mail.damage < MaxDamage
    /\ \E i \in {1, 4, 5, 81} \cap DOMAIN mail.payload : \E c \in Counts :
          mail' = [mail EXCEPT !.payload = SubSeq(@, 1, i - 1) \o c \o SubSeq(@, i + 1, Len(@)), !.how = "recounted",
                               !.damage = @ + 1]
Next == Send \/ Cut \/ Recount

-----------------------------------------------------------------------------
(* Properties.                                                              *)

Parsed == parse_message(command_of(mail.sent), mail.payload)

Enveloped(sent) ==
    LET h == deserialize_header(serialize_header(MessageHeader(<<1, 2, 3, 4>>, command_of(mail.sent), sent)))
    IN /\ command_str(h) = command_of(mail.sent)
       /\ h.size = Len(sent)
       /\ verify_checksum(h, mail.payload) <=> mail.payload = sent

\* What is sent arrives: the header names the command and the payload, its checksum tells a
\* damaged payload, and parse_message gives back the message, unknown ones included.
ArrivesAsSent ==
    mail.how # "none" =>
        /\ Enveloped(serialize_message(mail.sent))
        /\ mail.how = "sent" => Parsed = mail.sent

AddrFields(a) == {a.services, a.ip, a.port}
Fields(m) ==
    CASE m.msg = "version" -> {m.version, m.services, m.timestamp, m.nonce, m.agent, m.height} \cup AddrFields(m.recv) \cup AddrFields(m.from)
      [] m.msg \in Inventories -> UNION {{m.items[i].type, m.items[i].hash} : i \in DOMAIN m.items}
      [] m.msg = "headers" -> {m.items[i].header : i \in DOMAIN m.items}
      [] m.msg = "addr" -> UNION {{m.items[i].time} \cup AddrFields(m.items[i].addr) : i \in DOMAIN m.items}
      [] m.msg \in Locators -> {m.version, m.stop} \cup Range(m.locators)
      [] m.msg = "reject" -> {m.message, m.reason}
      [] m.msg = "sendtxrcncl" -> {m.version, m.salt}
      [] m.msg = "sendcmpct" -> {m.version}
      [] m.msg \in Filters -> {m.type, m.start, m.stop}
      [] m.msg = "getcfcheckpt" -> {m.type, m.stop}
      [] m.msg \in OneNumber -> {m.n}
      [] OTHER -> {}

\* No payload makes parse_message reach outside of it, whatever its counts claim.
NeverPanics == Panic \notin Fields(Parsed)

PartOf(p, m) ==
    CASE p.msg = "unknown" \/ p.msg \in Bare -> TRUE
      [] p.msg \in Raw -> IsPrefix(p.data, m.data)
      [] p.msg \in OneNumber -> p.n \in {m.n, Zeros(8)}
      [] p.msg \in Inventories \cup {"headers", "addr"} -> IsStrictPrefix(p.items, m.items)
      [] p.msg \in Locators -> IsPrefix(p.locators, m.locators) /\ p.stop = Zeros(32)
      [] p.msg = "reject" -> p.message = m.message /\ p.code = m.code /\ IsPrefix(p.reason, m.reason)
      [] p.msg = "version" -> p = [m EXCEPT !.relay = TRUE]
      [] OTHER -> FALSE

\* A payload that breaks off is not taken for something that was not sent: a list has a prefix of
\* its entries, a number or a hash is the one sent or zero, or the message is not understood.
BreaksOffSafely == mail.how = "cut" => PartOf(Parsed, mail.sent)
=============================================================================
