------------------------------ MODULE MCListings ------------------------------
EXTENDS Listings
=============================================================================
