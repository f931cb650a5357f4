----------------------------- MODULE MCDelivery -----------------------------
\* The WhatsApp connection for TLC: a socket open, and others still writing
\* their credentials.
EXTENDS Delivery

CONSTANTS s1, s2, s3, null

MCSocket == {s1, s2, s3}
=============================================================================
