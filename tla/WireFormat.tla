----------------------------- MODULE WireFormat -----------------------------
(***************************************************************************)
(* The messages of crates/wire as prost puts them into packets.  A packet  *)
(* says nothing of the type of its message: it is a map from the tag of    *)
(* each field present to the field's wire type and value, and a field that *)
(* has its default value, zero or empty, is left out of it.                *)
(*                                                                         *)
(* A message is a record, and an entity in one is its id.  The digests     *)
(* (tag 3 of JoinBaseline and SnapshotProto, a varint) are left out: no    *)
(* client reads one, and what the other message of the channel has at that *)
(* tag is a varint too.  Clients send one kind of message per channel, so  *)
(* their packets are not encoded here.                                     *)
(***************************************************************************)
EXTENDS Integers

Varint(tag, name)    == [tag |-> tag, name |-> name, wire |-> "varint"]
Delimited(tag, name) == [tag |-> tag, name |-> name, wire |-> "length_delimited"]

ServerWelcome_fields ==
    {Varint(1, "target_tick_floor"), Varint(2, "tick_rate_hz"),
     Varint(3, "player_id"), Varint(4, "controlled_entity_id")}

JoinBaseline_fields == {Varint(1, "tick"), Delimited(2, "entities")}

SnapshotProto_fields ==
    {Varint(1, "tick"), Delimited(2, "entities"), Varint(4, "target_tick_floor")}

FieldOf(fields, tag) == CHOOSE f \in fields : f.tag = tag

IsDefault(f, value) == IF f.wire = "varint" THEN value = 0 ELSE value = {}

\* prost::Message::encode_to_vec
encode(fields, message) ==
    [tag \in {f.tag : f \in {f \in fields : ~IsDefault(f, message[f.name])}} |->
        LET f == FieldOf(fields, tag)
        IN  [wire |-> f.wire, value |-> message[f.name]]]

\* prost::Message::decode fails on a known tag of another wire type only; it
\* skips unknown tags, so every packet is a ClientHello, which has no field.
decodes(fields, packet) ==
    \A f \in fields : f.tag \in DOMAIN packet => packet[f.tag].wire = f.wire

decode(fields, packet) ==
    [name \in {f.name : f \in fields} |->
        LET f == CHOOSE f \in fields : f.name = name
        IN  IF f.tag \in DOMAIN packet THEN packet[f.tag].value
            ELSE IF f.wire = "varint" THEN 0 ELSE {}]
=============================================================================
