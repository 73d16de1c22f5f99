SPECIFICATION Spec
CONSTANTS
    Alphabet <- MCAlphabet
    MaxLength <- MCMaxLength
    Char <- MCChar
    MaxParams = 3
    Modulus = 16
    Names <- MCNames
    Members <- MCMembers
    Routes <- MCRoutes
INVARIANTS TextsStandForBytes DigestIsStandard HandshakeIsRead MovesAreSlides MessagesComeBack AddressesAreRoutes AnswersMatchRequests IndexIsPlace PathsAreFollowed RowsComeBack
CHECK_DEADLOCK FALSE
