---------------------------- MODULE MCExpiryAlert ----------------------------
EXTENDS ExpiryAlert, TLC

CONSTANTS s1, s2, s3

\* One subscription hears of expiry; one waits for warnings, and the message for
\* the third cannot be written.
MCFilter == s1 :> "Critical" @@ s2 :> "Warning" @@ s3 :> "Critical"
=============================================================================
