----------------------------- MODULE MCQuotaTopup -----------------------------
EXTENDS QuotaTopup
=============================================================================
