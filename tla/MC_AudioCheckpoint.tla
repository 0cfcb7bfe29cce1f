------------------------- MODULE MC_AudioCheckpoint -------------------------
(* Small instances of AudioCheckpoint: two or three segments of two        *)
(* speakers, one or two retention changes, one or two failures.            *)
EXTENDS AudioCheckpoint

CONSTANTS self, counterpart

BothSpeakers == {self, counterpart}
TwoSegments == {<<self, 1>>, <<counterpart, 1>>}
ThreeSegments == TwoSegments \cup {<<self, 2>>}
NoRaces == {}
RetainRace == {"retain"}
StartRace == {"start"}
=============================================================================
