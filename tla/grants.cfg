SPECIFICATION Spec
CONSTANTS
  Apps = {"notes"}
  Owners <- Everybody
  OwnerOf <- UserOwns
  Requests = {r1, r2}
  Ids = {d1, d2}
  Agents <- Asking
  Offers <- Asked
  Rests <- Places
  Expiries = {1, 2}
  MaxNow = 1
SYMMETRY Interchangeable
INVARIANTS TypeOK ReturnedWasGranted GrantsOnlyNarrow
