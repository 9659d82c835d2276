--------------------------- MODULE MCEmailScrape ---------------------------
(* Four sites, two workers, batches of two: two full batches, or one and a *)
(* rest when a site is cut off, and a worker waiting for the semaphore.    *)
EXTENDS EmailScrape
=============================================================================
