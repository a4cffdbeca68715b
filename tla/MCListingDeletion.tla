------------------------ MODULE MCListingDeletion ------------------------
EXTENDS ListingDeletion
=============================================================================
