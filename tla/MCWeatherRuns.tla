---------------------------- MODULE MCWeatherRuns ----------------------------
(* WeatherRuns for TLC: three runs over three valid times and one fault, two  *)
(* runs once a manifest has been lost.                                        *)
EXTENDS WeatherRuns, TLC

FewerRunsWhenLost == manifest = Blank /\ payload # Blank => latest < LastRun
==============================================================================
