------------------------------- MODULE MCContacts ------------------------------
(* Values for model checking Contacts.                                        *)
EXTENDS Contacts, TLC

CONSTANTS t1

OneText == {t1}
=============================================================================
