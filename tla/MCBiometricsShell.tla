-------------------------- MODULE MCBiometricsShell -------------------------
(* Small instances of BiometricsShell for TLC. *)
EXTENDS BiometricsShell, TLC

CONSTANTS t1, t2, s1, s2, nobody

TwoCallers == {t1, t2}
TwoSlots == {s1, s2}
SomeIds == 1 .. UINT16_MAX
AroundTheRange == -1 .. UINT16_MAX + 2

SomeSettings ==
    {DefaultSettings,
     [DefaultSettings EXCEPT !.match_threshold = 90],
     [DefaultSettings EXCEPT !.match_threshold = 90, !.led_state = "on"],
     [DefaultSettings EXCEPT !.next_match_id = 2],
     [DefaultSettings EXCEPT !.force_capture_timeout = TRUE]}

CallersAndSlots == Permutations(TwoCallers) \cup Permutations(TwoSlots)
=============================================================================
