----------------------------- MODULE MCEventFlow -----------------------------
EXTENDS EventFlow, TLC

\* Two of the known ticks, and one the processor does not know.
MCTickFields == {"BID", "ASK_SIZE", "DELAYED_BID"}

\* The symbols are alike.
Symmetry == Permutations(Symbols)
\* The processor depends on the lines it has read and nothing depends on it, so
\* only the runs in which it reads every line at once are needed.
ReadsAtOnce == lines' # lines => processed = Len(lines)

==============================================================================
