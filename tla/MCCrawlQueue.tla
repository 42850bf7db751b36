---------------------------- MODULE MCCrawlQueue ----------------------------
(* Small instances of CrawlQueue for TLC.                                  *)
EXTENDS CrawlQueue

CONSTANTS s1, s2, w1, w2

=============================================================================
