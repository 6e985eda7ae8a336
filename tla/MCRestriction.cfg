\* A compound, a model of the class of a part, one that is filled from them.
CONSTANTS
  user = user
  login = login
  card = card
  x = x
  y = y
  z = z
  one = one
  secret = secret
  pass = pass
  Invalid = Invalid
  Hidden = Hidden
  Empty = Empty
  Values = {one}
  Fields <- AllFields
  Dtos = {card}
  Singles <- AllSingles
  Compounds = {y}
  Parts = {user, login}
  Levels = {1}
SPECIFICATION Spec
INVARIANTS
  RestrictedShowsNothing
  NothingHiddenWritten
