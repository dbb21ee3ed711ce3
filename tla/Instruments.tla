----------------------------- MODULE Instruments -----------------------------
(***************************************************************************)
(* What an instrument, as declared in a catalog file or in terrarium.toml, *)
(* may say: validate_instrument, validate_instrument_manifests and         *)
(* satisfies (control/instrument.py), the triggers (control/triggers.py)   *)
(* and the manifests' shapes (control/role_config.py).                     *)
(*                                                                         *)
(* An instrument is [name, pixels, caps, cues, table, solo, triggers,      *)
(* light, ugen, layout]: `cues` the cue kinds it accepts, `solo` the pairs *)
(* <<event, function>> it plays by itself, `layout` the zone its model     *)
(* puts each pixel in (None for none; <<>> without a model).  A light      *)
(* manifest is a sequence of [target, sound], a ugen manifest of           *)
(* [drums, sound].                                                         *)
(***************************************************************************)
EXTENDS FunctionTable

CONSTANTS
    Capabilities,  \* CAPABILITY_VOCABULARY
    PixelFloor,    \* the 12 pixels light.pixels asks for
    MaxParts       \* MAX_PARTS: parts of a ugen manifest, one kept for drums

ASSUME InstrumentsAssumption == PixelFloor \in Nat /\ MaxParts \in Nat \ {0}

CueKinds == {"midi", "play", "solid", "mute"}
SoloEvents == {"tap", "double_tap", "shake"}

\* validate_event_trigger and validate_stream_trigger.  A trigger is
\* [kind, sound, transform, alpha], alpha in tenths.
TriggerRefused(t) ==
    \/ ~t.sound
    \/ t.kind = "stream" /\ (t.transform # "smooth" \/ t.alpha \notin 1 .. 10)

\* validate_light_manifest
LightRefused(light) == \E i \in DOMAIN light : ~light[i].sound

\* validate_ugen_manifest: one channel is kept for drums.
UgenRefused(ugen) ==
    LET drums == {i \in DOMAIN ugen : ugen[i].drums}
    IN  \/ Len(ugen) > MaxParts
        \/ Cardinality(drums) > 1
        \/ Len(ugen) - Cardinality(drums) > MaxParts - 1
        \/ \E i \in DOMAIN ugen : ~ugen[i].sound

\* validate_instrument, then validate_instrument_manifests.
InstrumentRefused(inst) ==
    \/ ~(inst.caps \subseteq Capabilities)
    \/ "light.pixels" \in inst.caps /\ inst.pixels < PixelFloor
    \/ ~(inst.cues \subseteq CueKinds)
    \/ \E i \in DOMAIN inst.table : inst.table[i].kind \notin {"generator", "scripted"}
    \/ TableRefused(inst.table, {}, "instrument")
    \/ \E i \in DOMAIN inst.table : \E j \in DOMAIN inst.table[i].script :
           inst.table[i].script[j].kind \notin inst.cues
    \/ \E b \in inst.solo : b[1] \notin SoloEvents \/ b[2] \notin Names(inst.table)
    \/ \E t \in inst.triggers : TriggerRefused(t)
    \/ LightRefused(inst.light) \/ UgenRefused(inst.ugen)
=============================================================================
