CONSTANTS
  r1 = r1  r2 = r2  u1 = u1  u2 = u2  u3 = u3  e1 = e1  lang = lang  theme = theme
  en = en  fr = fr  dark = dark
  Registrations = {r1, r2}
  Email <- MCEmail
  Password <- MCPassword
  Updates = {u1, u2, u3}
  Erasures = {e1}
  Keys = {lang, theme}
  Values = {en, fr, dark}
  Payload <- MCPayload
SPECIFICATION Spec
INVARIANTS TypeOK OnlyItsOwner LostOnlyToOverlap
CHECK_DEADLOCK FALSE
