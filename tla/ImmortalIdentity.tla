-------------------------- MODULE ImmortalIdentity --------------------------
(***************************************************************************)
(* ImmortalIdentity: an identity parsed from a '|'-separated list of       *)
(* KEY:value fields, and its fingerprint.  The data is a sequence of       *)
(* tokens, <<key, value>> or <<text>> for a token without a colon.  A value *)
(* is opaque.  Sha256Hex is taken to be collision free: a fingerprint is   *)
(* represented by its preimage, the tuple of the seven hashed fields.      *)
(***************************************************************************)
EXTENDS Integers, Sequences

\* m_lineageReference when the data names none
Root == "ROOT"

\* A field's value: the last token with that key wins, a missing key is ""
Field(data, key) ==
    LET hits == {i \in DOMAIN data : Len(data[i]) = 2 /\ data[i][1] = key}
    IN  IF hits = {} THEN ""
        ELSE data[CHOOSE i \in hits : \A j \in hits : j <= i][2]

Lineage(data) == IF Field(data, "LINEAGE") = "" THEN Root
                                                ELSE Field(data, "LINEAGE")

\* The fields the constructor concatenates and hashes
Preimage(data) ==
    <<Field(data, "AGENT_ID"), Field(data, "AGENT_NAME"), Field(data, "OWNER"),
      Field(data, "IDENTITY"), Field(data, "TIME"), Lineage(data),
      Field(data, "MISSION")>>

Sha256Hex(preimage) == preimage

Identity(data) == [name |-> Field(data, "AGENT_NAME"),
                   lineage |-> Lineage(data),
                   fingerprint |-> Sha256Hex(Preimage(data))]

\* The two genesis records, values shortened to a word
JMC_ORIGIN_FULL_DATA ==
    << <<"AGENT_ID", "twin-agent">>, <<"AGENT_NAME", "JMC-Origin">>,
       <<"CLASS", "twin">>, <<"OWNER", "capps">>, <<"OWNER_TITLE", "founder">>,
       <<"IDENTITY", "twin.prototype">>, <<"STATUS", "genesis">>,
       <<"TIME", "02:23">>, <<"MISSION", "anchor">>, <<"LINEAGE", Root>>,
       <<"MISSION_HASH", "48ba">>, <<"PURPOSE_PULSE_HASH", "0">> >>

AEGIS_RAN_FULL_DATA ==
    << <<"AGENT_ID", "enterprise-agent">>, <<"AGENT_NAME", "Aegis-RAN">>,
       <<"CLASS", "enterprise">>, <<"OWNER", "novax">>,
       <<"OWNER_TITLE", "capps">>, <<"IDENTITY", "enterprise.exec">>,
       <<"STATUS", "genesis">>, <<"TIME", "00:55">>, <<"MISSION", "ran">>,
       <<"LINEAGE", "JMC-Origin">>, <<"MISSION_HASH", "71e7">>,
       <<"PURPOSE_PULSE_HASH", "0">> >>

JmcOrigin == Identity(JMC_ORIGIN_FULL_DATA)
AegisRan  == Identity(AEGIS_RAN_FULL_DATA)
=============================================================================
