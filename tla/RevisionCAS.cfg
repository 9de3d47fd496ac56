\* The system stops once the contact is purged.
CHECK_DEADLOCK FALSE
CONSTANTS
  Clients = {c1, c2}
  MaxRevision = 4
  c1 = c1
  c2 = c2
  c3 = c3
SPECIFICATION Spec
INVARIANTS RevisionIdentifiesCard
PROPERTIES NoLostUpdate ImplementsContact
