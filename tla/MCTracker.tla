------------------------------ MODULE MCTracker ------------------------------
(* Instances of Tracker for TLC. *)
EXTENDS Tracker

(* The fields of a kind of report are the parts its texts print. *)
ASSUME FieldsAreThePartsPrinted ==
    /\ \A kind \in DOMAIN LoRaFormats : FieldsOf[kind] = PartsOf(LoRaFormats[kind])
    /\ \A kind \in StoredKinds :
          FieldsOf[kind] = PartsOf(MemoryFormats[kind])
                           \union {EntryPart[k] : k \in DOMAIN EntryPart \intersect {kind}}
=============================================================================
