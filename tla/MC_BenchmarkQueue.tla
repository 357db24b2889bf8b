-------------------------- MODULE MC_BenchmarkQueue --------------------------
\* Two benchmarks, of one model each, beside one other session.
EXTENDS BenchmarkQueue, TLC

CONSTANTS a, b

Measures == <<a, b>>
=============================================================================
