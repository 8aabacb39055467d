----------------------------- MODULE MCChannels -----------------------------
\* Instances of Channels for TLC: the requests are interchangeable.
EXTENDS Channels, TLC

Interchangeable == Permutations(Requests)
=============================================================================
