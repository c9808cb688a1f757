-------------------------------- MODULE Absent --------------------------------
\* None is what the program has as null or undefined: a field that is not set, an answer or a
\* coupon that is not there.
CONSTANT None
=============================================================================
